---------------------------- MODULE Spec2Model ----------------------------
(***************************************************************************)
(* HPA-axis simulation environments of hamii31/RL-HPA-Axis.                *)
(*                                                                         *)
(*   extended model : src/Python Implementation/hpa.py (27-dim, 27 actions)*)
(*   simple model   : src/hpa.py                       (12-dim,  9 actions)*)
(*                                                                         *)
(* Numbers.  The program computes in float64.  Here every real quantity x  *)
(* is the integer floor(x * 10^6) (micro-units); products and quotients    *)
(* are rounded down to a micro-unit and are computed in pieces so that no  *)
(* intermediate value leaves the 32-bit integers.  tanh, cos and sin are   *)
(* tabulated and interpolated linearly.                                    *)
(*                                                                         *)
(* Random source.  Both files draw from numpy's module-level generator     *)
(* (the np.random functions), one global object shared by all instances.   *)
(* It is modelled as the variable rng, the generator's state; each draw    *)
(* reads one variate and advances the state.                               *)
(***************************************************************************)
EXTENDS Integers, Sequences, FiniteSets, TLC

(***************************************************************************)
(* Bounds of the model                                                     *)
(***************************************************************************)
MaxSteps   == 2      \* max_steps given to the constructor (default 2400)
ExtraSteps == 1      \* step() calls explored after done was returned
NumSeeds   == 4      \* generator states the process may start from
MaxOps     == 4      \* calls made when two instances are driven
GridCells  == 120    \* cells the cortisol range [0, 60] is divided into

(***************************************************************************)
(* Fixed-point arithmetic                                                  *)
(***************************************************************************)
S == 1000000

Abs(x) == IF x < 0 THEN -x ELSE x
Max2(a, b) == IF a >= b THEN a ELSE b
Min2(a, b) == IF a <= b THEN a ELSE b

\* np.clip(x, lo, hi)
Clip(x, lo, hi) == IF x < lo THEN lo ELSE IF x > hi THEN hi ELSE x

\* float product a * b, rounded down to a micro-unit
Mul(a, b) ==
    LET ah == a \div 1000
        al == a % 1000
        bh == b \div 1000
        bl == b % 1000
    IN  ah * bh + ((ah * bl + al * bh) + ((al * bl) \div 1000)) \div 1000

\* float quotient a / b (b > 0), rounded down to a micro-unit.  Divisors
\* above 2*10^7 micro-units are first reduced by 100 with the remainder.
FDiv(a, b) ==
    LET n   == IF b < 0 THEN -a ELSE a
        d   == IF b < 0 THEN -b ELSE b
        q0  == n \div d
        r0  == n % d
        big == d > 20000000
        bb  == IF big THEN d \div 100 ELSE d
        rr == IF big THEN Min2(r0 \div 100, bb - 1) ELSE r0
        d1 == (rr * 100) \div bb
        r1 == (rr * 100) % bb
        d2 == (r1 * 100) \div bb
        r2 == (r1 * 100) % bb
        d3 == (r2 * 100) \div bb
    IN  q0 * S + d1 * 10000 + d2 * 100 + d3

Sq(x) == Mul(x, x)

(***************************************************************************)
(* Transcendental functions (numpy), tabulated                             *)
(***************************************************************************)
\* tanh(k/8), k = 0..40
TanhTable ==
    <<
       0, 124353, 244919, 358357, 462117, 554600, 635149, 703906,
       761594, 809301, 848284, 879827, 905148, 925346, 941376, 954045,
       964028, 971873, 978026, 982845, 986614, 989560, 991860, 993655,
       995055, 996147, 996998, 997661, 998178, 998581, 998894, 999139,
       999329, 999478, 999593, 999683, 999753, 999808, 999850, 999883,
       999909
    >>

\* cos(2 pi k/96), k = 0..95
CosTable ==
    <<
       1000000, 997859, 991445, 980785, 965926, 946930, 923880, 896873,
       866025, 831470, 793353, 751840, 707107, 659346, 608761, 555570,
       500000, 442289, 382683, 321439, 258819, 195090, 130526, 65403,
       0, -65403, -130526, -195090, -258819, -321439, -382683, -442289,
       -500000, -555570, -608761, -659346, -707107, -751840, -793353, -831470,
       -866025, -896873, -923880, -946930, -965926, -980785, -991445, -997859,
       -1000000, -997859, -991445, -980785, -965926, -946930, -923880, -896873,
       -866025, -831470, -793353, -751840, -707107, -659346, -608761, -555570,
       -500000, -442289, -382683, -321439, -258819, -195090, -130526, -65403,
       0, 65403, 130526, 195090, 258819, 321439, 382683, 442289,
       500000, 555570, 608761, 659346, 707107, 751840, 793353, 831470,
       866025, 896873, 923880, 946930, 965926, 980785, 991445, 997859
    >>

\* sin(2 pi k/60), k = 0..59
SinTable ==
    <<
       0, 104528, 207912, 309017, 406737, 500000, 587785, 669131,
       743145, 809017, 866025, 913545, 951057, 978148, 994522, 1000000,
       994522, 978148, 951057, 913545, 866025, 809017, 743145, 669131,
       587785, 500000, 406737, 309017, 207912, 104528, 0, -104528,
       -207912, -309017, -406737, -500000, -587785, -669131, -743145, -809017,
       -866025, -913545, -951057, -978148, -994522, -1000000, -994522, -978148,
       -951057, -913545, -866025, -809017, -743145, -669131, -587785, -500000,
       -406737, -309017, -207912, -104528
    >>

LN2    == 693147      \* np.log(2)
TWO_PI == 6283185     \* 2 * np.pi

\* linear interpolation in a table of n cells of width w covering one period
\* (or, with wrap = FALSE, the range [0, (n-1) w] with saturation beyond it)
Interp(tab, w, x, wrap) ==
    LET n  == Len(tab)
        i  == x \div w
        f  == x % w
        lo == IF wrap THEN tab[(i % n) + 1]
              ELSE IF i >= n - 1 THEN tab[n] ELSE tab[i + 1]
        hi == IF wrap THEN tab[((i + 1) % n) + 1]
              ELSE IF i >= n - 1 THEN tab[n] ELSE tab[i + 2]
    IN  lo + Mul(hi - lo, FDiv(f, w))

\* np.tanh
Tanh(x) == IF x >= 0 THEN Interp(TanhTable, 125000, x, FALSE)
           ELSE -Interp(TanhTable, 125000, -x, FALSE)

\* np.cos(2 * np.pi * h / 24) for h in hours
CosDay(h) == Interp(CosTable, 250000, h % (24 * S), TRUE)

\* np.sin(phase)
Sin(phase) == Interp(SinTable, TWO_PI \div 60, phase % ((TWO_PI \div 60) * 60), TRUE)

(***************************************************************************)
(* The module-level random source (numpy.random)                           *)
(***************************************************************************)
\* the uniform [0,1) variate delivered in each generator state
UniformTable ==
    <<
       500000,  10000, 950000, 300000, 700000,   5000, 650000, 200000,
            0,  15000, 650000, 999999, 250000,  19000, 850000, 350000
    >>

\* the standard normal variate delivered in each generator state
NormalTable ==
    <<
            0, -1000000,   500000,  1200000, -300000,  2000000, -8000000,  800000,
     -1500000,   100000,  8000000,  -700000,  300000, -2500000,  1000000, -100000
    >>

\* the generator state after n draws
Advance(s, n) == (s + n) % Len(UniformTable)

\* np.random.random() as the k-th draw from state s (k = 0 is the next draw)
random(s, k) == UniformTable[Advance(s, k) + 1]

\* np.random.uniform(lo, hi)
uniform(s, k, lo, hi) == lo + Mul(hi - lo, random(s, k))

\* np.random.normal(mean, sd)
normal(s, k, mean, sd) == mean + Mul(sd, NormalTable[Advance(s, k) + 1])

\* np.random.choice([2, 5, 8], p=[0.6, 0.3, 0.1]): inverse CDF of a uniform
choice(s, k) ==
    LET u == random(s, k)
    IN  IF u < 600000 THEN 2 * S ELSE IF u < 900000 THEN 5 * S ELSE 8 * S

(***************************************************************************)
(* Extended model: physiological constants                                 *)
(***************************************************************************)
HALFLIFE_CORTISOL == 1250000
HALFLIFE_ACTH     == 170000
HALFLIFE_CRH      == 250000
HALFLIFE_AVP      == 330000
HALFLIFE_BETAEP   == 500000
HALFLIFE_UCN1     == 500000
HALFLIFE_UCN23    == 1000000

MR_KD == 500000
GR_KD == 5000000

CORTISOL_TO_NM == 27600000

OPT_CORTISOL == 15000000
OPT_ACTH     == 25000000
OPT_CRH      == 100000000
OPT_AVP      == 4000000

TOL_CORTISOL == 7000000
TOL_ACTH     == 15000000
TOL_CRH      == 50000000

CRH_BASAL    == 50000000
ACTH_BASAL   == 15000000
CORT_BASAL   == 8000000
AVP_BASAL    == 2000000
BETAEP_BASAL == 5000000

GLAND_GROWTH  == 1000
GLAND_ATROPHY == 800

dt               == 100000      \* time_step_hours
ultradian_period == 1500000
_hist_len        == 50

k_cort   == FDiv(LN2, HALFLIFE_CORTISOL)
k_acth   == FDiv(LN2, HALFLIFE_ACTH)
k_crh    == FDiv(LN2, HALFLIFE_CRH)
k_avp    == FDiv(LN2, HALFLIFE_AVP)
k_betaep == FDiv(LN2, HALFLIFE_BETAEP)
k_ucn1   == FDiv(LN2, HALFLIFE_UCN1)
k_ucn23  == FDiv(LN2, HALFLIFE_UCN23)

(***************************************************************************)
(* Extended model: reset                                                   *)
(***************************************************************************)
\* number of variates reset() draws
ResetDraws == 9

\* HPAEnvironment.reset (and __init__, which ends by calling it): the state
\* of an instance built with max_steps = n from generator state s
reset(s, n) ==
    LET c == normal(s, 2, 12000000, 2000000)
    IN  [ max_steps               |-> n,
          crh                     |-> normal(s, 0, 100000000, 20000000),
          acth                    |-> normal(s, 1, 25000000, 5000000),
          cortisol                |-> c,
          avp                     |-> normal(s, 3, 4000000, 500000),
          beta_endorphin          |-> normal(s, 4, 5000000, 1000000),
          melanocortin_tone       |-> 1000000,
          ucn1                    |-> 1000000,
          ucn23                   |-> 1000000,
          mr_receptors            |-> 1000000,
          gr_receptors            |-> 1000000,
          crfr1_density           |-> 1000000,
          crfr2_density           |-> 1000000,
          pituitary_mass          |-> 1000000,
          adrenal_mass            |-> 1000000,
          nts_drive               |-> 200000,
          gaba_inhibition         |-> 300000,
          sfo_drive               |-> 200000,
          cea_activity            |-> 200000,
          mea_activity            |-> 200000,
          cea_sensitisation       |-> 0,
          pfc_inhibition          |-> 400000,
          lc_activity             |-> 200000,
          hippocampal_damage      |-> 0,
          arcuate_metabolic_drive |-> 0,
          stress_physical         |-> uniform(s, 5, 0, 1500000),
          stress_emotional        |-> uniform(s, 6, 0, 1500000),
          chronic_stress_index    |-> 0,
          time_hours              |-> uniform(s, 7, 0, 24 * S),
          day                     |-> 0,
          ultradian_phase         |-> uniform(s, 8, 0, TWO_PI),
          _prev_cortisol          |-> c,
          _fast_feedback_signal   |-> 0,
          current_step            |-> 0,
          cumulative_load         |-> 0,
          cortisol_history        |-> [i \in 1 .. _hist_len |-> c] ]

(***************************************************************************)
(* Extended model: helpers                                                 *)
(***************************************************************************)
\* deque_append on a plain list: nothing is evicted
list_append(h, x, n) == Append(h, x)

\* deque(maxlen=n).append(x)
deque_append(h, x, n) ==
    IF Len(h) >= n THEN Append(Tail(h), x) ELSE Append(h, x)

stress_level(e) == e.stress_physical + e.stress_emotional

_cortisol_nm(e) == Mul(e.cortisol, CORTISOL_TO_NM)

\* _receptor_occupancy with the two affinity constants exchanged
_receptor_occupancy_swapped(e) ==
    [ mr |-> FDiv(_cortisol_nm(e), GR_KD + _cortisol_nm(e)),
      gr |-> FDiv(_cortisol_nm(e), MR_KD + _cortisol_nm(e)) ]

\* _receptor_occupancy returns (mr, gr)
_receptor_occupancy(e) ==
    LET cnm == _cortisol_nm(e)
    IN  [ mr |-> FDiv(cnm, MR_KD + cnm),
          gr |-> FDiv(cnm, GR_KD + cnm) ]

\* _fast_nongenomic_feedback: the value it stores in _fast_feedback_signal
\* and returns
_fast_nongenomic_feedback(e) ==
    LET rate     == FDiv(e.cortisol - e._prev_cortisol, dt)
        pos_rate == Max2(0, rate)
        signal   == FDiv(pos_rate, pos_rate + 5000000)
    IN  Mul(700000, signal) + Mul(300000, e._fast_feedback_signal)

_slow_genomic_feedback(e, mr_occ, gr_occ) ==
    LET mr_fb       == Mul(Mul(300000, mr_occ), e.mr_receptors)
        gr_fb       == Mul(Mul(700000, gr_occ), e.gr_receptors)
        pfc_genomic == Mul(Mul(Mul(100000, gr_occ), e.gr_receptors),
                           e.pfc_inhibition)
    IN  mr_fb + gr_fb + pfc_genomic

_hippocampal_feedback(e, mr_occ, gr_occ) ==
    LET hip_signal    == Mul(Mul(400000, mr_occ), e.mr_receptors)
                         + Mul(Mul(600000, gr_occ), e.gr_receptors)
        damage_factor == Max2(100000,
                              1000000 - Mul(500000, e.hippocampal_damage)
                              - Mul(300000, Tanh(e.chronic_stress_index)))
    IN  Mul(hip_signal, damage_factor)

\* _total_negative_feedback returns (total, mr_occ, gr_occ); fast is the
\* value its call of _fast_nongenomic_feedback leaves in the instance
_total_negative_feedback(e) ==
    LET occ             == _receptor_occupancy(e)
        slow_genomic    == _slow_genomic_feedback(e, occ.mr, occ.gr)
        fast_nongenomic == _fast_nongenomic_feedback(e)
        hippocampal     == _hippocampal_feedback(e, occ.mr, occ.gr)
    IN  [ total  |-> slow_genomic + Mul(300000, fast_nongenomic)
                     + Mul(400000, hippocampal),
          mr_occ |-> occ.mr,
          gr_occ |-> occ.gr,
          fast   |-> fast_nongenomic ]

(***************************************************************************)
(* Extended model: update rules.  Each takes the instance state e and      *)
(* gives the state the method leaves.                                      *)
(***************************************************************************)
_update_urocortins(e) ==
    LET ucn1_prod  == 500000 + Mul(100000, stress_level(e))
        ucn23_prod == 500000 + Mul(200000, e.stress_emotional)
                      + Mul(50000, e.lc_activity)
    IN  [e EXCEPT
           !.ucn1  = Clip(e.ucn1 + Mul(ucn1_prod - Mul(k_ucn1, e.ucn1), dt),
                          100000, 5000000),
           !.ucn23 = Clip(e.ucn23 + Mul(ucn23_prod - Mul(k_ucn23, e.ucn23), dt),
                          100000, 8000000)]

\* _ucn_crfr_modulation returns (crfr1_boost, crfr2_boost)
_ucn_crfr_modulation(e) ==
    [ crfr1_boost |-> Mul(50000, e.ucn1 - 1000000),
      crfr2_boost |-> Mul(40000, e.ucn1 - 1000000)
                      + Mul(60000, e.ucn23 - 1000000) ]

_update_amygdala(e, mr_occ, gr_occ) ==
    LET cea_target0     == 100000 + Mul(400000, Tanh(e.stress_physical \div 3))
        cea_gluco_boost == Mul(Mul(Mul(100000, gr_occ), e.gr_receptors),
                               1000000 + e.cea_sensitisation)
        cea_target      == Min2(1000000, cea_target0 + cea_gluco_boost)
        cea1            == e.cea_activity
                           + Mul(Mul(80000, cea_target - e.cea_activity), dt)
        sens            == Clip(e.cea_sensitisation
                                + Mul(Mul(Mul(1000, gr_occ),
                                          e.chronic_stress_index), dt)
                                - Mul(500, dt),
                                0, 2000000)
        mea_target      == 100000 + Mul(400000, Tanh(e.stress_emotional \div 3))
        mea1            == e.mea_activity
                           + Mul(Mul(60000, mea_target - e.mea_activity), dt)
    IN  [e EXCEPT !.cea_sensitisation = sens,
                  !.cea_activity      = Clip(cea1, 0, 1000000),
                  !.mea_activity      = Clip(mea1, 0, 1000000)]

_update_pfc(e, mr_occ, gr_occ) ==
    LET pfc_target0       == Mul(500000,
                                 1000000 - Mul(300000, Tanh(e.chronic_stress_index)))
        acute_suppression == Mul(100000, Tanh(stress_level(e) \div 5))
        pfc_target        == Max2(50000, pfc_target0 - acute_suppression)
        pfc1              == e.pfc_inhibition
                             + Mul(Mul(40000, pfc_target - e.pfc_inhibition), dt)
    IN  [e EXCEPT !.pfc_inhibition = Clip(pfc1, 0, 1000000)]

_update_lc(e) ==
    LET lc_target0 == 100000
                      + Mul(200000, Tanh(stress_level(e) \div 5))
                      + Mul(100000, FDiv(e.crh, OPT_CRH))
                      + Mul(50000, e.ucn23 - 1000000)
        lc_target  == Mul(lc_target0,
                          Max2(400000,
                               1000000 - Mul(150000, Tanh(e.chronic_stress_index))))
        lc1        == e.lc_activity
                      + Mul(Mul(50000, lc_target - e.lc_activity), dt)
    IN  [e EXCEPT !.lc_activity = Clip(lc1, 0, 1000000)]

_update_sfo(e) ==
    LET sfo_target == 100000 + Mul(150000, Tanh(e.stress_physical \div 4))
                      + Mul(100000, FDiv(e.avp, OPT_AVP) - 1000000)
        sfo1       == e.sfo_drive
                      + Mul(Mul(40000, sfo_target - e.sfo_drive), dt)
    IN  [e EXCEPT !.sfo_drive = Clip(sfo1, 0, 1000000)]

_update_arcuate(e) ==
    LET npy_agrp_drive == Mul(100000, Tanh(e.chronic_stress_index))
                          + Mul(50000, Tanh(e.stress_physical \div 3))
        msh_cart_drive == Mul(-50000, e.melanocortin_tone)
                          - Mul(30000, Tanh(e.stress_emotional \div 3))
        target         == npy_agrp_drive + msh_cart_drive
        arc1           == e.arcuate_metabolic_drive
                          + Mul(Mul(20000, target - e.arcuate_metabolic_drive), dt)
    IN  [e EXCEPT !.arcuate_metabolic_drive = Clip(arc1, -1000000, 1000000)]

_update_avp(e) ==
    LET chronic_boost    == 1000000 + Mul(300000, Tanh(e.chronic_stress_index))
        stress_drive_avp == Mul(400000, stress_level(e))
        sfo_avp_link     == Mul(200000, e.sfo_drive)
        avp_production   == Mul(AVP_BASAL, chronic_boost)
                            + stress_drive_avp
                            + sfo_avp_link
                            - Mul(Mul(AVP_BASAL, 300000),
                                  FDiv(e.cortisol, OPT_CORTISOL))
        avp_decay        == Mul(k_avp, e.avp)
    IN  [e EXCEPT !.avp = Clip(e.avp + Mul(avp_production - avp_decay, dt),
                               500000, 30000000)]

_update_pomc_products(e) ==
    LET betaep_prod  == BETAEP_BASAL
                        + Mul(Mul(150000, e.acth - OPT_ACTH), e.pituitary_mass)
        betaep_decay == Mul(k_betaep, e.beta_endorphin)
        mcr_target   == 500000 + Mul(500000, FDiv(e.acth, OPT_ACTH))
        mcr1         == e.melanocortin_tone
                        + Mul(Mul(50000, mcr_target - e.melanocortin_tone), dt)
    IN  [e EXCEPT
           !.beta_endorphin    = Clip(e.beta_endorphin
                                      + Mul(betaep_prod - betaep_decay, dt),
                                      0, 40000000),
           !.melanocortin_tone = Clip(mcr1, 100000, 3000000)]

_update_upstream_signals(e, mr_occ, gr_occ) ==
    LET nts_target0 == 100000 + Mul(200000, Tanh(stress_level(e) \div 5))
                       + Mul(300000, e.cea_activity)
        nts_target  == Mul(nts_target0,
                           Max2(300000, 1000000 - Mul(300000, e.pfc_inhibition)))
        nts1        == e.nts_drive + Mul(Mul(50000, nts_target - e.nts_drive), dt)
        gaba_target == 150000 + Mul(200000, Tanh(stress_level(e) \div 4))
                       + Mul(100000, e.pfc_inhibition)
        gaba1       == e.gaba_inhibition
                       + Mul(Mul(30000, gaba_target - e.gaba_inhibition), dt)
    IN  [e EXCEPT !.nts_drive       = Clip(nts1, 0, 1000000),
                  !.gaba_inhibition = Clip(gaba1, 0, 1000000)]

_update_hippocampal_damage(e, gr_occ) ==
    LET damage_rate == Mul(Mul(200, Max2(0, gr_occ - 400000)),
                           e.chronic_stress_index)
        repair_rate == 20
    IN  [e EXCEPT !.hippocampal_damage =
                     Clip(e.hippocampal_damage
                          + Mul(damage_rate - repair_rate, dt),
                          0, 1000000)]

_update_crf_receptors(e) ==
    LET ucn           == _ucn_crfr_modulation(e)
        crfr1a        == IF e.crh > 150000000
                         THEN e.crfr1_density - Mul(150, dt)
                         ELSE e.crfr1_density
                              + Mul(Mul(100, dt), 1000000 - e.crfr1_density)
        chronic_upmod == Mul(Mul(50, e.chronic_stress_index), dt)
        crfr2a        == e.crfr2_density
                         + Mul(chronic_upmod, 1200000 - e.crfr2_density)
        crfr2b        == crfr2a + Mul(Mul(50, dt), 1000000 - crfr2a)
    IN  [e EXCEPT
           !.crfr1_density = Clip(crfr1a + Mul(ucn.crfr1_boost, dt),
                                  200000, 1500000),
           !.crfr2_density = Clip(crfr2b + Mul(ucn.crfr2_boost, dt),
                                  500000, 1800000)]

\* _update_glands with the receptor densities recovering by a fixed amount
_update_glands_overshoot(e) ==
    LET adrenal1   == IF e.acth > 40000000
                      THEN e.adrenal_mass + Mul(GLAND_GROWTH, dt)
                      ELSE IF e.acth < 15000000
                      THEN e.adrenal_mass - Mul(GLAND_ATROPHY, dt)
                      ELSE e.adrenal_mass
        pituitary1 == IF e.cortisol > 25000000
                      THEN e.pituitary_mass - Mul(GLAND_ATROPHY, dt)
                      ELSE IF e.cortisol < 10000000
                      THEN e.pituitary_mass + Mul(GLAND_GROWTH, dt)
                      ELSE e.pituitary_mass
        cnm        == _cortisol_nm(e)
        gr1        == IF cnm > 100000000
                      THEN Mul(e.gr_receptors, 1000000 - Mul(100, dt))
                      ELSE e.gr_receptors + Mul(100, dt)
        mr1        == IF cnm > 100000000
                      THEN Mul(e.mr_receptors, 1000000 - Mul(50, dt))
                      ELSE e.mr_receptors + Mul(50, dt)
    IN  [e EXCEPT !.adrenal_mass   = Clip(adrenal1, 500000, 2000000),
                  !.pituitary_mass = Clip(pituitary1, 500000, 2000000),
                  !.gr_receptors   = Clip(gr1, 300000, 1500000),
                  !.mr_receptors   = Clip(mr1, 500000, 1200000)]

\* _update_glands with the gland masses clipped to [0.4, 2.0]
_update_glands_low_floor(e) ==
    LET adrenal1   == IF e.acth > 40000000
                      THEN e.adrenal_mass + Mul(GLAND_GROWTH, dt)
                      ELSE IF e.acth < 15000000
                      THEN e.adrenal_mass - Mul(GLAND_ATROPHY, dt)
                      ELSE e.adrenal_mass
        pituitary1 == IF e.cortisol > 25000000
                      THEN e.pituitary_mass - Mul(GLAND_ATROPHY, dt)
                      ELSE IF e.cortisol < 10000000
                      THEN e.pituitary_mass + Mul(GLAND_GROWTH, dt)
                      ELSE e.pituitary_mass
        cnm        == _cortisol_nm(e)
        gr1        == IF cnm > 100000000
                      THEN Mul(e.gr_receptors, 1000000 - Mul(100, dt))
                      ELSE e.gr_receptors
                           + Mul(Mul(100, dt), 1000000 - e.gr_receptors)
        mr1        == IF cnm > 100000000
                      THEN Mul(e.mr_receptors, 1000000 - Mul(50, dt))
                      ELSE e.mr_receptors
                           + Mul(Mul(50, dt), 1000000 - e.mr_receptors)
    IN  [e EXCEPT !.adrenal_mass   = Clip(adrenal1, 400000, 2000000),
                  !.pituitary_mass = Clip(pituitary1, 400000, 2000000),
                  !.gr_receptors   = Clip(gr1, 300000, 1500000),
                  !.mr_receptors   = Clip(mr1, 500000, 1200000)]

\* _update_glands with the adrenal growing at every ACTH level of 15 or more
_update_glands_eager(e) ==
    LET adrenal1   == IF e.acth >= 15000000
                      THEN e.adrenal_mass + Mul(GLAND_GROWTH, dt)
                      ELSE e.adrenal_mass - Mul(GLAND_ATROPHY, dt)
        pituitary1 == IF e.cortisol > 25000000
                      THEN e.pituitary_mass - Mul(GLAND_ATROPHY, dt)
                      ELSE IF e.cortisol < 10000000
                      THEN e.pituitary_mass + Mul(GLAND_GROWTH, dt)
                      ELSE e.pituitary_mass
        cnm        == _cortisol_nm(e)
        gr1        == IF cnm > 100000000
                      THEN Mul(e.gr_receptors, 1000000 - Mul(100, dt))
                      ELSE e.gr_receptors
                           + Mul(Mul(100, dt), 1000000 - e.gr_receptors)
        mr1        == IF cnm > 100000000
                      THEN Mul(e.mr_receptors, 1000000 - Mul(50, dt))
                      ELSE e.mr_receptors
                           + Mul(Mul(50, dt), 1000000 - e.mr_receptors)
    IN  [e EXCEPT !.adrenal_mass   = Clip(adrenal1, 500000, 2000000),
                  !.pituitary_mass = Clip(pituitary1, 500000, 2000000),
                  !.gr_receptors   = Clip(gr1, 300000, 1500000),
                  !.mr_receptors   = Clip(mr1, 500000, 1200000)]

_update_glands(e) ==
    LET adrenal1   == IF e.acth > 40000000
                      THEN e.adrenal_mass + Mul(GLAND_GROWTH, dt)
                      ELSE IF e.acth < 15000000
                      THEN e.adrenal_mass - Mul(GLAND_ATROPHY, dt)
                      ELSE e.adrenal_mass
        pituitary1 == IF e.cortisol > 25000000
                      THEN e.pituitary_mass - Mul(GLAND_ATROPHY, dt)
                      ELSE IF e.cortisol < 10000000
                      THEN e.pituitary_mass + Mul(GLAND_GROWTH, dt)
                      ELSE e.pituitary_mass
        cnm        == _cortisol_nm(e)
        gr1        == IF cnm > 100000000
                      THEN Mul(e.gr_receptors, 1000000 - Mul(100, dt))
                      ELSE e.gr_receptors
                           + Mul(Mul(100, dt), 1000000 - e.gr_receptors)
        mr1        == IF cnm > 100000000
                      THEN Mul(e.mr_receptors, 1000000 - Mul(50, dt))
                      ELSE e.mr_receptors
                           + Mul(Mul(50, dt), 1000000 - e.mr_receptors)
    IN  [e EXCEPT !.adrenal_mass   = Clip(adrenal1, 500000, 2000000),
                  !.pituitary_mass = Clip(pituitary1, 500000, 2000000),
                  !.gr_receptors   = Clip(gr1, 300000, 1500000),
                  !.mr_receptors   = Clip(mr1, 500000, 1200000)]

_circadian_amplitude(e) ==
    LET base_amplitude       == 9000000 + Mul(9000000, CosDay(e.time_hours - 8 * S))
        avp_mod              == 1000000 + Mul(50000, e.avp - OPT_AVP)
        circadian_disruption == Max2(500000,
                                     1000000 - Mul(100000, e.chronic_stress_index))
    IN  Mul(Mul(base_amplitude, Clip(avp_mod, 500000, 1500000)),
            circadian_disruption)

\* _ultradian_pulse: the phase it stores, and the value it returns when the
\* noise variate is the k-th draw from generator state s
ultradian_advance(e) ==
    e.ultradian_phase + FDiv(Mul(TWO_PI, dt), ultradian_period)

_ultradian_pulse(e, s, k) ==
    Mul(3000000, Sin(ultradian_advance(e))) + normal(s, k, 0, 500000)

(***************************************************************************)
(* Extended model: allostatic load                                         *)
(***************************************************************************)
\* sum of a sequence of numbers
RECURSIVE SeqSum(_)
SeqSum(q) == IF q = << >> THEN 0 ELSE Head(q) + SeqSum(Tail(q))

\* list(h)[-n:]
LastN(h, n) == IF Len(h) <= n THEN h ELSE SubSeq(h, Len(h) - n + 1, Len(h))

\* np.var of a sequence of n <= 10 values (population variance)
np_var(q) ==
    LET n    == Len(q)
        mean == SeqSum(q) \div n
    IN  SeqSum([i \in 1 .. n |-> Sq(q[i] - mean) \div n])

\* np.mean of the history, summed in two halves
np_mean(h) ==
    LET n  == Len(h)
        m  == n \div 2
        s1 == SeqSum(SubSeq(h, 1, m))
        s2 == SeqSum(SubSeq(h, m + 1, n))
    IN  IF n = 1 THEN h[1]
        ELSE (s1 \div n) + (s2 \div n) + ((s1 % n) + (s2 % n)) \div n

\* load_deviation without the steeper quadratic outside the tolerance window
load_deviation_flat(e) ==
    LET dev == e.cortisol - OPT_CORTISOL
    IN  IF Abs(dev) <= TOL_CORTISOL
        THEN Mul(10000, Sq(FDiv(dev, TOL_CORTISOL)))
        ELSE 10000

\* load_deviation measuring the deviation from the mean cortisol of reset()
load_deviation_from_reset_mean(e) ==
    LET dev == e.cortisol - 12000000
    IN  IF Abs(dev) <= TOL_CORTISOL
        THEN Mul(10000, Sq(FDiv(dev, TOL_CORTISOL)))
        ELSE Mul(500000, Sq(FDiv(Abs(dev) - TOL_CORTISOL, TOL_CORTISOL)))

\* cortisol deviation term
load_deviation(e) ==
    LET dev == e.cortisol - OPT_CORTISOL
    IN  IF Abs(dev) <= TOL_CORTISOL
        THEN Mul(10000, Sq(FDiv(dev, TOL_CORTISOL)))
        ELSE Mul(500000, Sq(FDiv(Abs(dev) - TOL_CORTISOL, TOL_CORTISOL)))

\* tissue damage term
load_tissue(e) ==
    IF e.cortisol > 25000000
    THEN Mul(e.cortisol - 25000000, 300000)
         + (IF e.cortisol > 35000000
            THEN Mul(Sq((e.cortisol - 35000000) \div 10), 2000000)
            ELSE 0)
    ELSE IF e.cortisol < 5000000
    THEN Mul(5000000 - e.cortisol, 700000)
         + (IF e.cortisol < 2000000
            THEN Mul(Sq((2000000 - e.cortisol) \div 2), 5000000)
            ELSE 0)
    ELSE 0

\* ACTH and CRH dysregulation terms
load_acth_crh(e) ==
    LET acth_dev == Abs(e.acth - OPT_ACTH)
        crh_dev  == Abs(e.crh - OPT_CRH)
    IN  (IF acth_dev > TOL_ACTH
         THEN Mul(20000, Sq(FDiv(acth_dev - TOL_ACTH, TOL_ACTH)))
         ELSE 0)
        + (IF crh_dev > TOL_CRH
           THEN Mul(10000, Sq(FDiv(crh_dev - TOL_CRH, TOL_CRH)))
           ELSE 0)

\* receptor occupancy term, of the occupancies handed to _allostatic_load
load_occupancy(e, mr_occ, gr_occ) ==
    LET mr_cost    == Mul(500000, Sq(mr_occ - 800000))
        gr_optimal == IF stress_level(e) > 5000000 THEN 700000 ELSE 300000
        gr_cost    == Mul(300000, Sq(gr_occ - gr_optimal))
    IN  mr_cost + gr_cost

\* receptor down-regulation term
load_receptors(e) ==
    Mul(500000, Sq(1000000 - e.gr_receptors) + Sq(1000000 - e.mr_receptors))

\* gland pathology term
load_glands(e) ==
    LET adrenal0   == Sq(e.adrenal_mass - 1000000)
        pituitary0 == Sq(e.pituitary_mass - 1000000)
        adrenal_path   == IF e.adrenal_mass < 500000 \/ e.adrenal_mass > 1500000
                          THEN Mul(adrenal0, 3000000) ELSE adrenal0
        pituitary_path == IF e.pituitary_mass < 500000 \/ e.pituitary_mass > 1500000
                          THEN Mul(pituitary0, 3000000) ELSE pituitary0
    IN  Mul(adrenal_path + pituitary_path, 300000)

\* cortisol instability term
load_instability(e) ==
    IF Len(e.cortisol_history) >= 10
    THEN LET variance == np_var(LastN(e.cortisol_history, 10))
         IN  IF variance > 25000000 THEN (variance - 25000000) \div 100 ELSE 0
    ELSE 0

\* load_stress_response with the low-stress branch charging low cortisol
load_stress_response_low(e) ==
    IF stress_level(e) > 6000000
    THEN LET expected == 20000000 + stress_level(e) * 2
             err      == Abs(e.cortisol - expected)
         IN  IF err > 10000000 THEN Mul(500000, Sq(err \div 10)) ELSE 0
    ELSE IF stress_level(e) < 2000000 /\ e.cortisol < 5000000
    THEN Mul(300000, Sq((5000000 - e.cortisol) \div 10))
    ELSE 0

\* stress response appropriateness term
load_stress_response(e) ==
    IF stress_level(e) > 6000000
    THEN LET expected == 20000000 + stress_level(e) * 2
             err      == Abs(e.cortisol - expected)
         IN  IF err > 10000000 THEN Mul(500000, Sq(err \div 10)) ELSE 0
    ELSE IF stress_level(e) < 2000000 /\ e.cortisol > 25000000
    THEN Mul(300000, Sq((e.cortisol - 25000000) \div 10))
    ELSE 0

\* terms of the limbic and brainstem subsystems, with the beta-endorphin credit
load_limbic(e) ==
    - Mul(20000, Min2(e.beta_endorphin \div 10, 1000000))
    + Mul(50000, Abs(e.crfr1_density - 1000000) + Abs(e.crfr2_density - 1000000))
    + Mul(20000, e.chronic_stress_index)
    + Mul(30000, e.cea_sensitisation)
    + Mul(100000, Sq(e.hippocampal_damage))
    + Mul(50000, Sq(e.lc_activity - 300000))
    + (IF e.pfc_inhibition < 200000
       THEN Mul(100000, Sq(200000 - e.pfc_inhibition)) ELSE 0)

\* the sum before the floor
load_sum(e, mr_occ, gr_occ) ==
    50000
    + load_deviation(e)
    + load_tissue(e)
    + load_acth_crh(e)
    + load_occupancy(e, mr_occ, gr_occ)
    + load_receptors(e)
    + load_glands(e)
    + load_instability(e)
    + load_stress_response(e)
    + load_limbic(e)

_allostatic_load(e, mr_occ, gr_occ) == Max2(0, load_sum(e, mr_occ, gr_occ))

(***************************************************************************)
(* Extended model: step                                                    *)
(***************************************************************************)
\* decoding of the action index
crh_mod(action)  == ((action % 3) - 1) * 300000
\* acth_mod reading the digit of cort_mod
acth_mod_copied(action) == (((action \div 9) % 3) - 1) * 500000
acth_mod(action) == (((action \div 3) % 3) - 1) * 500000
cort_mod(action) == (((action \div 9) % 3) - 1) * 800000

\* cascade_crh with the arcuate boost following the sign of the drive
cascade_crh_signed(e, action, fb) ==
    LET arcuate_crh_boost == 10 * e.arcuate_metabolic_drive
        mea_crh_drive     == 10 * e.mea_activity
        crh_production ==
            CRH_BASAL
            + 10 * stress_level(e)
            + 30 * e.nts_drive
            + 15 * e.sfo_drive
            + mea_crh_drive
            + arcuate_crh_boost
            - Mul(Mul(CRH_BASAL, fb.total), 800000)
            - 20 * e.gaba_inhibition
            + crh_mod(action) * 20
        crh_decay == Mul(k_crh, e.crh)
    IN  Clip(e.crh + Mul(crh_production - crh_decay, dt), 0, 400000000)

\* step(), CRH: the level the step leaves.  fb is the result of
\* _total_negative_feedback.
cascade_crh(e, action, fb) ==
    LET arcuate_crh_boost == 10 * Abs(e.arcuate_metabolic_drive)
        mea_crh_drive     == 10 * e.mea_activity
        crh_production ==
            CRH_BASAL
            + 10 * stress_level(e)
            + 30 * e.nts_drive
            + 15 * e.sfo_drive
            + mea_crh_drive
            + arcuate_crh_boost
            - Mul(Mul(CRH_BASAL, fb.total), 800000)
            - 20 * e.gaba_inhibition
            + crh_mod(action) * 20
        crh_decay == Mul(k_crh, e.crh)
    IN  Clip(e.crh + Mul(crh_production - crh_decay, dt), 0, 400000000)

\* step(), ACTH: the level the step leaves when the production reads the CRH
\* level crh
cascade_acth(e, crh, action, fb) ==
    LET avp_synergy  == 1000000
                        + Mul(Mul(150000, FDiv(e.avp, OPT_AVP) - 1000000),
                              1000000 + Mul(200000, e.chronic_stress_index))
        crfr2_brake  == Max2(500000,
                             1000000 - Mul(200000, e.crfr2_density - 1000000))
        crh_to_acth_efficiency == Mul(e.crfr1_density, crfr2_brake)
        arcuate_acth_boost     == 5 * Abs(e.arcuate_metabolic_drive)
        lc_acth_contribution   == 3 * e.lc_activity
        crh_stimulation  == Mul(Mul(200000, crh - 100000000),
                                crh_to_acth_efficiency)
        avp_contribution == Mul(Mul(100000, e.avp - OPT_AVP), avp_synergy)
        acth_production ==
            Mul(ACTH_BASAL, e.pituitary_mass)
            + crh_stimulation
            + avp_contribution
            + lc_acth_contribution
            + arcuate_acth_boost
            - Mul(Mul(ACTH_BASAL, fb.total), 500000)
            + acth_mod(action) * 10
        acth_decay == Mul(k_acth, e.acth)
    IN  Clip(e.acth + Mul(acth_production - acth_decay, dt), 0, 200000000)

\* step(), cortisol: the level the step leaves when the production reads the
\* ACTH level acth; the ultradian noise is the first variate drawn from
\* generator state s
cascade_cortisol(e, acth, action, s) ==
    LET circadian_drive == _circadian_amplitude(e)
        ultradian       == _ultradian_pulse(e, s, 0)
        acth_stim       == Mul(Mul(150000, acth - OPT_ACTH), e.adrenal_mass)
        stress_direct   == 2 * stress_level(e)
        cort_production ==
            Mul(circadian_drive \div 12, CORT_BASAL)
            + acth_stim
            + stress_direct
            + Mul(ultradian, 300000)
            + cort_mod(action) * 2
        cort_decay == Mul(k_cort, e.cortisol)
    IN  Clip(e.cortisol + Mul(cort_production - cort_decay, dt), 0, 60000000)

\* step_cascade with the ACTH and cortisol productions reading the CRH and
\* ACTH levels of the previous step
step_cascade_stale(e, action, fb, s) ==
    LET crh1      == cascade_crh(e, action, fb)
        acth1     == cascade_acth(e, e.crh, action, fb)
        cortisol1 == cascade_cortisol(e, e.acth, action, s)
    IN  [e EXCEPT !.crh              = crh1,
                  !.acth             = acth1,
                  !.ultradian_phase  = ultradian_advance(e),
                  !.cortisol         = cortisol1,
                  !.cortisol_history = deque_append(e.cortisol_history,
                                                    cortisol1, _hist_len)]

\* the hormone cascade: CRH, then ACTH from the new CRH, then cortisol from
\* the new ACTH, and the cortisol history
step_cascade(e, action, fb, s) ==
    LET crh1      == cascade_crh(e, action, fb)
        acth1     == cascade_acth(e, crh1, action, fb)
        cortisol1 == cascade_cortisol(e, acth1, action, s)
    IN  [e EXCEPT !.crh              = crh1,
                  !.acth             = acth1,
                  !.ultradian_phase  = ultradian_advance(e),
                  !.cortisol         = cortisol1,
                  !.cortisol_history = deque_append(e.cortisol_history,
                                                    cortisol1, _hist_len)]

\* step_time without the wrap at 24 h
step_time_nowrap(e) == [e EXCEPT !.time_hours = e.time_hours + dt]

\* time advance
step_time(e) ==
    LET t == e.time_hours + dt
    IN  IF t >= 24 * S
        THEN [e EXCEPT !.time_hours = t - 24 * S, !.day = e.day + 1]
        ELSE [e EXCEPT !.time_hours = t]

\* TRUE iff the step drawing from generator state s injects a stress event
stress_event(s) == random(s, 1) < 20000

\* number of variates one step() draws from generator state s
StepDraws(s) == IF stress_event(s) THEN 4 ELSE 2

\* step_stress with the spike added to the pool without the cap of 10
step_stress_uncapped(e, s) ==
    LET physical0   == Max2(0, Mul(e.stress_physical, 970000) - 30000)
        emotional0  == Max2(0, Mul(e.stress_emotional, 970000) - 30000)
        magnitude   == choice(s, 2)
        is_physical == random(s, 3) < 400000
    IN  IF stress_event(s)
        THEN IF is_physical
             THEN [e EXCEPT !.stress_physical  = physical0 + magnitude,
                            !.stress_emotional = emotional0]
             ELSE [e EXCEPT !.stress_physical  = physical0,
                            !.stress_emotional = emotional0 + magnitude]
        ELSE [e EXCEPT !.stress_physical  = physical0,
                       !.stress_emotional = emotional0]

\* step_stress with the decay not floored at 0
step_stress_unfloored(e, s) ==
    LET physical0   == Mul(e.stress_physical, 970000) - 30000
        emotional0  == Mul(e.stress_emotional, 970000) - 30000
        magnitude   == choice(s, 2)
        is_physical == random(s, 3) < 400000
    IN  IF stress_event(s)
        THEN IF is_physical
             THEN [e EXCEPT !.stress_physical  =
                                Min2(10000000, physical0 + magnitude),
                            !.stress_emotional = emotional0]
             ELSE [e EXCEPT !.stress_physical  = physical0,
                            !.stress_emotional =
                                Min2(10000000, emotional0 + magnitude)]
        ELSE [e EXCEPT !.stress_physical  = physical0,
                       !.stress_emotional = emotional0]

\* step_stress with the spike added to both pools
step_stress_both(e, s) ==
    LET physical0   == Max2(0, Mul(e.stress_physical, 970000) - 30000)
        emotional0  == Max2(0, Mul(e.stress_emotional, 970000) - 30000)
        magnitude   == choice(s, 2)
    IN  IF stress_event(s)
        THEN [e EXCEPT !.stress_physical  =
                           Min2(10000000, physical0 + magnitude),
                       !.stress_emotional =
                           Min2(10000000, emotional0 + magnitude)]
        ELSE [e EXCEPT !.stress_physical  = physical0,
                       !.stress_emotional = emotional0]

\* stress decay and event injection
step_stress(e, s) ==
    LET physical0   == Max2(0, Mul(e.stress_physical, 970000) - 30000)
        emotional0  == Max2(0, Mul(e.stress_emotional, 970000) - 30000)
        magnitude   == choice(s, 2)
        is_physical == random(s, 3) < 400000
    IN  IF stress_event(s)
        THEN IF is_physical
             THEN [e EXCEPT !.stress_physical  =
                                Min2(10000000, physical0 + magnitude),
                            !.stress_emotional = emotional0]
             ELSE [e EXCEPT !.stress_physical  = physical0,
                            !.stress_emotional =
                                Min2(10000000, emotional0 + magnitude)]
        ELSE [e EXCEPT !.stress_physical  = physical0,
                       !.stress_emotional = emotional0]

\* chronic stress index (slow integrator)
step_chronic(e) ==
    [e EXCEPT !.chronic_stress_index =
        Clip(Mul(e.chronic_stress_index, 1000000 - Mul(1000, dt))
             + Mul(Mul(1000, stress_level(e)), dt),
             0, 5000000)]

\* step(), line 724: remember the cortisol level before the feedback is
\* computed
step_prev(e) == [e EXCEPT !._prev_cortisol = e.cortisol]

\* step(), store the fast feedback signal (fb is the feedback computed from
\* the pre-update state)
step_feedback(e, fb) == [e EXCEPT !._fast_feedback_signal = fb.fast]

\* step(), the limbic and upstream updates in the order of the source
step_limbic(e, fb) ==
    _update_hippocampal_damage(
        _update_urocortins(
            _update_upstream_signals(
                _update_arcuate(
                    _update_sfo(
                        _update_lc(
                            _update_pfc(
                                _update_amygdala(e, fb.mr_occ, fb.gr_occ),
                                fb.mr_occ, fb.gr_occ)))),
                fb.mr_occ, fb.gr_occ)),
        fb.gr_occ)

\* step(), the updates that follow the hormone cascade
step_downstream(e) ==
    _update_crf_receptors(
        _update_glands(
            _update_avp(
                _update_pomc_products(e))))

\* step(), time advance, stress pool and chronic stress index
step_clock(e, s) == step_chronic(step_stress(step_time(e), s))

\* step() from the feedback computation to the reward computation, given the
\* feedback fb of the pre-update state
step_updates(e, fb, action, s) ==
    step_clock(
        step_downstream(
            step_cascade(step_limbic(step_feedback(e, fb), fb), action, fb, s)),
        s)

\* the state of the instance when step() reaches the reward computation
step_dynamics(e, action, s) ==
    step_updates(step_prev(e), _total_negative_feedback(step_prev(e)),
                 action, s)

\* reward_of without the offset (the docstring's reward = -allostatic_load)
reward_no_offset(allostatic_load) == - allostatic_load

\* the reward offset
reward_of(allostatic_load) == 5000000 - allostatic_load

\* done_of with the comparison off by one
done_after(e) == e.current_step > e.max_steps

\* the termination flag
done_of(e) == e.current_step >= e.max_steps

\* step_return with the load stored in place of the accumulated load
step_return_overwriting(e, allostatic_load, action, s) ==
    [ env    |-> [e EXCEPT !.cumulative_load = allostatic_load,
                           !.current_step    = e.current_step + 1],
      load   |-> allostatic_load,
      reward |-> reward_of(allostatic_load),
      done   |-> done_of([e EXCEPT !.current_step = e.current_step + 1]),
      mods   |-> << crh_mod(action), acth_mod(action), cort_mod(action) >>,
      rng    |-> Advance(s, StepDraws(s)) ]

\* step(), the bookkeeping after the load computation and the values returned
step_return(e, allostatic_load, action, s) ==
    [ env    |-> [e EXCEPT !.cumulative_load = e.cumulative_load + allostatic_load,
                           !.current_step    = e.current_step + 1],
      load   |-> allostatic_load,
      reward |-> reward_of(allostatic_load),
      done   |-> done_of([e EXCEPT !.current_step = e.current_step + 1]),
      mods   |-> << crh_mod(action), acth_mod(action), cort_mod(action) >>,
      rng    |-> Advance(s, StepDraws(s)) ]

\* step(), the load computation: the occupancies occ passed to
\* _allostatic_load are those computed at the start of the step
step_load(e, occ, action, s) ==
    step_return(e, _allostatic_load(e, occ.mr, occ.gr), action, s)

\* HPAEnvironment.step(action), drawing from generator state s: the state it
\* leaves, the load it computes, the modifiers it decodes, the reward and done
\* flag it returns and the generator state afterwards
step(e, action, s) ==
    step_load(step_dynamics(e, action, s), _receptor_occupancy(e), action, s)

(***************************************************************************)
(* Extended model: observation                                             *)
(***************************************************************************)
\* _get_state: the 27-entry observation vector
_get_state(e) ==
    LET occ            == _receptor_occupancy(e)
        cortisol_avg   == np_mean(e.cortisol_history)
        cortisol_trend == (e.cortisol - cortisol_avg) \div 10
        hip_feedback   == _hippocampal_feedback(e, occ.mr, occ.gr)
        ucn_tone       == (e.ucn1 + e.ucn23) \div 2
    IN  << e.stress_emotional \div 5,
           e.stress_physical \div 5,
           e.crh \div 300,
           e.acth \div 100,
           e.cortisol \div 40,
           e.avp \div 20,
           e.beta_endorphin \div 30,
           e.melanocortin_tone \div 3,
           FDiv(e.crfr1_density, 1500000),
           FDiv(e.crfr2_density, 1800000),
           ucn_tone \div 5,
           e.time_hours \div 24,
           cortisol_trend,
           _circadian_amplitude(e) \div 20,
           occ.mr,
           occ.gr,
           hip_feedback,
           e.hippocampal_damage,
           e.nts_drive,
           e.gaba_inhibition,
           e.sfo_drive,
           e.cea_activity,
           e.mea_activity,
           e.pfc_inhibition,
           e.lc_activity,
           e.pituitary_mass \div 2,
           e.adrenal_mass \div 2 >>

\* get_state_info taking its occupancies from _total_negative_feedback, whose
\* call of _fast_nongenomic_feedback stores the fast feedback signal
get_state_info_feedback(e) ==
    [ env  |-> [e EXCEPT !._fast_feedback_signal = _fast_nongenomic_feedback(e)],
      info |-> [ cortisol_ug_dl  |-> e.cortisol,
                 mr_occupancy    |-> _total_negative_feedback(e).mr_occ,
                 gr_occupancy    |-> _total_negative_feedback(e).gr_occ,
                 cumulative_load |-> e.cumulative_load ] ]

\* get_state_info(): the state it leaves and the snapshot it returns
get_state_info(e) ==
    [ env  |-> e,
      info |-> [ stress_emotional   |-> e.stress_emotional,
                 stress_physical    |-> e.stress_physical,
                 stress_total       |-> stress_level(e),
                 crh_pg_ml          |-> e.crh,
                 acth_pg_ml         |-> e.acth,
                 cortisol_ug_dl     |-> e.cortisol,
                 avp_pg_ml          |-> e.avp,
                 beta_endorphin     |-> e.beta_endorphin,
                 melanocortin_tone  |-> e.melanocortin_tone,
                 ucn1               |-> e.ucn1,
                 ucn23              |-> e.ucn23,
                 crfr1_density      |-> e.crfr1_density,
                 crfr2_density      |-> e.crfr2_density,
                 mr_occupancy       |-> _receptor_occupancy(e).mr,
                 gr_occupancy       |-> _receptor_occupancy(e).gr,
                 pituitary_mass     |-> e.pituitary_mass,
                 adrenal_mass       |-> e.adrenal_mass,
                 nts_drive          |-> e.nts_drive,
                 gaba_inhibition    |-> e.gaba_inhibition,
                 sfo_drive          |-> e.sfo_drive,
                 cea_activity       |-> e.cea_activity,
                 mea_activity       |-> e.mea_activity,
                 cea_sensitisation  |-> e.cea_sensitisation,
                 pfc_inhibition     |-> e.pfc_inhibition,
                 lc_activity        |-> e.lc_activity,
                 hippocampal_damage |-> e.hippocampal_damage,
                 arcuate_drive      |-> e.arcuate_metabolic_drive,
                 chronic_stress_idx |-> e.chronic_stress_index,
                 cumulative_load    |-> e.cumulative_load ] ]

(***************************************************************************)
(* Simple model (src/hpa.py): parameters                                   *)
(***************************************************************************)
\* _set_developmental_parameters: the attributes set for each stage
_set_developmental_parameters(stage) ==
    CASE stage = "infant" ->
             [ max_steps |-> 240, feedback_maturity |-> 400000,
               receptor_sensitivity |-> 600000, stress_resilience |-> 500000 ]
      [] stage = "child" ->
             [ max_steps |-> 720, feedback_maturity |-> 700000,
               receptor_sensitivity |-> 800000, stress_resilience |-> 700000 ]
      [] stage = "adolescent" ->
             [ max_steps |-> 1440, feedback_maturity |-> 900000,
               receptor_sensitivity |-> 950000, stress_resilience |-> 850000 ]
      [] OTHER ->
             [ max_steps |-> 2400, feedback_maturity |-> 1000000,
               receptor_sensitivity |-> 1000000, stress_resilience |-> 1000000 ]

\* _setup_physiological_parameters
cortisol_halflife == 1250000
acth_halflife     == 170000
crh_halflife      == 250000
k_cortisol        == FDiv(LN2, cortisol_halflife)
simple_k_acth     == FDiv(LN2, acth_halflife)
simple_k_crh      == FDiv(LN2, crh_halflife)
crh_basal_secretion      == 50000000
acth_basal_secretion     == 15000000
cortisol_basal_secretion == 8000000
stress_to_crh      == 10
stress_to_cortisol == 2
mr_kd == 500000
gr_kd == 5000000
mr_feedback_strength(e) == Mul(300000, e.feedback_maturity)
gr_feedback_strength(e) == Mul(700000, e.feedback_maturity)
gland_growth_rate  == 1000
gland_atrophy_rate == 800
optimal_cortisol   == 15000000
optimal_acth       == 25000000
optimal_crh        == 100000000
cortisol_tolerance == 7000000
acth_tolerance     == 15000000
crh_tolerance      == 50000000

\* HPAEnvironment(developmental_stage=stage) of the simple model, the one
\* variate of the constructor drawn from generator state s.  The constructor
\* does not call reset().  The episode length of the stage is cut to n steps.
InitDraws == 1
simple_init(stage, s, n) ==
    [ stage            |-> stage,
      cortisol         |-> 12000000,
      acth             |-> 25000000,
      crh              |-> 100000000,
      pituitary_mass   |-> 1000000,
      adrenal_mass     |-> 1000000,
      mr_receptors     |-> 1000000,
      gr_receptors     |-> 1000000,
      stress_level     |-> 0,
      time_hours       |-> 8000000,
      day              |-> 0,
      ultradian_phase  |-> uniform(s, 0, 0, TWO_PI),
      cortisol_history |-> [i \in 1 .. _hist_len |-> 12000000],
      current_step     |-> 0,
      max_steps        |-> Min2(_set_developmental_parameters(stage).max_steps, n),
      feedback_maturity    |-> _set_developmental_parameters(stage).feedback_maturity,
      receptor_sensitivity |-> _set_developmental_parameters(stage).receptor_sensitivity,
      stress_resilience    |-> _set_developmental_parameters(stage).stress_resilience,
      cumulative_load  |-> 0 ]

\* reset() of the simple model, drawing from generator state s
SimpleResetDraws == 6
simple_reset_cortisol(s) == 12000000 + normal(s, 0, 0, 2000000)
\* simple_reset without the assignment of cumulative_load
simple_reset_partial(e, s) ==
    [e EXCEPT !.cortisol         = simple_reset_cortisol(s),
              !.acth             = 25000000 + normal(s, 1, 0, 5000000),
              !.crh              = 100000000 + normal(s, 2, 0, 20000000),
              !.pituitary_mass   = 1000000,
              !.adrenal_mass     = 1000000,
              !.mr_receptors     = 1000000,
              !.gr_receptors     = 1000000,
              !.stress_level     = uniform(s, 3, 0, 3000000),
              !.time_hours       = uniform(s, 4, 0, 24000000),
              !.day              = 0,
              !.ultradian_phase  = uniform(s, 5, 0, TWO_PI),
              !.current_step     = 0,
              !.cortisol_history = [i \in 1 .. _hist_len |-> simple_reset_cortisol(s)]]

simple_reset(e, s) ==
    [e EXCEPT !.cortisol         = simple_reset_cortisol(s),
              !.acth             = 25000000 + normal(s, 1, 0, 5000000),
              !.crh              = 100000000 + normal(s, 2, 0, 20000000),
              !.pituitary_mass   = 1000000,
              !.adrenal_mass     = 1000000,
              !.mr_receptors     = 1000000,
              !.gr_receptors     = 1000000,
              !.stress_level     = uniform(s, 3, 0, 3000000),
              !.time_hours       = uniform(s, 4, 0, 24000000),
              !.day              = 0,
              !.ultradian_phase  = uniform(s, 5, 0, TWO_PI),
              !.current_step     = 0,
              !.cumulative_load  = 0,
              !.cortisol_history = [i \in 1 .. _hist_len |-> simple_reset_cortisol(s)]]

(***************************************************************************)
(* Simple model: feedback, rhythms, glands                                 *)
(***************************************************************************)
_cortisol_to_nmol(cortisol_ugdl) == Mul(cortisol_ugdl, 27600000)

\* _calculate_receptor_occupancy returns (mr_occ, gr_occ)
_calculate_receptor_occupancy(cortisol_nM) ==
    [ mr |-> FDiv(cortisol_nM, mr_kd + cortisol_nM),
      gr |-> FDiv(cortisol_nM, gr_kd + cortisol_nM) ]

\* the unscaled feedback of _calculate_total_feedback
total_feedback_of(e, occ) ==
    Mul(Mul(mr_feedback_strength(e), occ.mr), e.mr_receptors)
    + Mul(Mul(gr_feedback_strength(e), occ.gr), e.gr_receptors)

\* _calculate_total_feedback returns (total, mr_occ, gr_occ)
_calculate_total_feedback(e) ==
    [ total  |-> Mul(total_feedback_of(e,
                         _calculate_receptor_occupancy(_cortisol_to_nmol(e.cortisol))),
                     e.receptor_sensitivity),
      mr_occ |-> _calculate_receptor_occupancy(_cortisol_to_nmol(e.cortisol)).mr,
      gr_occ |-> _calculate_receptor_occupancy(_cortisol_to_nmol(e.cortisol)).gr ]

_get_circadian_amplitude(e) ==
    9000000 + Mul(9000000, CosDay(e.time_hours - 8 * S))

\* _get_ultradian_pulse: the phase it stores, and the value it returns when
\* the noise variate is the k-th draw from generator state s
simple_ultradian_advance(e) ==
    e.ultradian_phase + FDiv(Mul(TWO_PI, dt), ultradian_period)

_get_ultradian_pulse(e, s, k) ==
    Mul(3000000, Sin(simple_ultradian_advance(e))) + normal(s, k, 0, 500000)

\* _update_gland_masses: gland masses
gland_masses(e) ==
    [e EXCEPT
       !.adrenal_mass =
           Clip(IF e.acth > 40000000
                THEN e.adrenal_mass + Mul(gland_growth_rate, dt)
                ELSE IF e.acth < 15000000
                THEN e.adrenal_mass - Mul(gland_atrophy_rate, dt)
                ELSE e.adrenal_mass,
                500000, 2000000),
       !.pituitary_mass =
           Clip(IF e.cortisol > 25000000
                THEN e.pituitary_mass - Mul(gland_atrophy_rate, dt)
                ELSE IF e.cortisol < 10000000
                THEN e.pituitary_mass + Mul(gland_growth_rate, dt)
                ELSE e.pituitary_mass,
                500000, 2000000)]

\* _update_gland_masses: receptor regulation
gland_receptors(e) ==
    [e EXCEPT
       !.gr_receptors =
           Clip(IF _cortisol_to_nmol(e.cortisol) > 100000000
                THEN Mul(e.gr_receptors, 1000000 - Mul(100, dt))
                ELSE e.gr_receptors
                     + Mul(Mul(100, dt), 1000000 - e.gr_receptors),
                300000, 1500000),
       !.mr_receptors =
           Clip(IF _cortisol_to_nmol(e.cortisol) > 100000000
                THEN Mul(e.mr_receptors, 1000000 - Mul(50, dt))
                ELSE e.mr_receptors
                     + Mul(Mul(50, dt), 1000000 - e.mr_receptors),
                500000, 1200000)]

_update_gland_masses(e) == gland_receptors(gland_masses(e))

(***************************************************************************)
(* Simple model: allostatic load                                           *)
(***************************************************************************)
\* _calculate_allostatic_load: cortisol deviation cost
deviation_cost(e) ==
    IF Abs(e.cortisol - optimal_cortisol) <= cortisol_tolerance
    THEN Mul(10000, Sq(FDiv(e.cortisol - optimal_cortisol, cortisol_tolerance)))
    ELSE Mul(500000,
             Sq(FDiv(Abs(e.cortisol - optimal_cortisol) - cortisol_tolerance,
                     cortisol_tolerance)))

\* _calculate_allostatic_load: tissue damage
tissue_damage(e) ==
    IF e.cortisol > 25000000
    THEN Mul(e.cortisol - 25000000, 300000)
         + (IF e.cortisol > 35000000
            THEN Mul(Sq((e.cortisol - 35000000) \div 10), 2000000)
            ELSE 0)
    ELSE IF e.cortisol < 5000000
    THEN Mul(5000000 - e.cortisol, 700000)
         + (IF e.cortisol < 2000000
            THEN Mul(Sq((2000000 - e.cortisol) \div 2), 5000000)
            ELSE 0)
    ELSE 0

\* _calculate_allostatic_load: ACTH and CRH dysregulation costs
acth_cost(e) ==
    IF Abs(e.acth - optimal_acth) > acth_tolerance
    THEN Mul(20000, Sq(FDiv(Abs(e.acth - optimal_acth) - acth_tolerance,
                            acth_tolerance)))
    ELSE 0

crh_cost(e) ==
    IF Abs(e.crh - optimal_crh) > crh_tolerance
    THEN Mul(10000, Sq(FDiv(Abs(e.crh - optimal_crh) - crh_tolerance,
                            crh_tolerance)))
    ELSE 0

\* _calculate_allostatic_load: occupancy costs of the occupancies handed in
mr_cost(mr_occ) == Mul(500000, Sq(Abs(mr_occ - 800000)))

gr_cost(e, gr_occ) ==
    Mul(300000,
        Sq(Abs(gr_occ - (IF e.stress_level > 5000000 THEN 700000 ELSE 300000))))

\* _calculate_allostatic_load: receptor down-regulation cost
receptor_cost(e) ==
    Mul(Sq(1000000 - e.gr_receptors) + Sq(1000000 - e.mr_receptors), 500000)

\* _calculate_allostatic_load: gland pathology cost
pathology(mass) ==
    IF mass < 500000 \/ mass > 1500000
    THEN Mul(Sq(mass - 1000000), 3000000)
    ELSE Sq(mass - 1000000)

gland_cost(e) ==
    Mul(pathology(e.adrenal_mass) + pathology(e.pituitary_mass), 300000)

\* _calculate_allostatic_load: instability cost
instability_of(variance) ==
    IF variance > 25000000 THEN (variance - 25000000) \div 100 ELSE 0

instability_cost(e) ==
    IF Len(e.cortisol_history) >= 10
    THEN instability_of(np_var(LastN(e.cortisol_history, 10)))
    ELSE 0

\* _calculate_allostatic_load: stress response cost
stress_response_cost(e) ==
    IF e.stress_level > 6000000
    THEN IF Abs(e.cortisol - (20000000 + e.stress_level * 2)) > 10000000
         THEN Mul(500000,
                  Sq(Abs(e.cortisol - (20000000 + e.stress_level * 2)) \div 10))
         ELSE 0
    ELSE IF e.stress_level < 2000000 /\ e.cortisol > 25000000
    THEN Mul(300000, Sq((e.cortisol - 25000000) \div 10))
    ELSE 0

\* _calculate_allostatic_load: the sum of the components
total_allocastic_load(e, mr_occ, gr_occ) ==
    50000
    + deviation_cost(e)
    + tissue_damage(e)
    + acth_cost(e)
    + crh_cost(e)
    + mr_cost(mr_occ)
    + gr_cost(e, gr_occ)
    + receptor_cost(e)
    + gland_cost(e)
    + instability_cost(e)
    + stress_response_cost(e)

vulnerability_factor(e) == 2000000 - e.stress_resilience

_calculate_allostatic_load(e, mr_occ, gr_occ) ==
    Mul(total_allocastic_load(e, mr_occ, gr_occ), vulnerability_factor(e))

(***************************************************************************)
(* Simple model: step                                                      *)
(***************************************************************************)
\* decoding of the action index
simple_crh_mod(action)  == ((action % 3) - 1) * 300000
simple_acth_mod(action) == (((action \div 3) % 3) - 1) * 500000
cortisol_mod(action)    == (((action \div 9) % 3) - 1) * 800000

\* CRH dynamics
simple_crh(e, action, fb) ==
    Clip(e.crh
         + Mul(crh_basal_secretion
               + stress_to_crh * e.stress_level
               - Mul(crh_basal_secretion, fb.total)
               + simple_crh_mod(action) * 20
               - Mul(simple_k_crh, e.crh),
               dt),
         0, 400000000)

\* ACTH dynamics, crh being the updated CRH level
simple_acth(e, action, fb, crh) ==
    Clip(e.acth
         + Mul(Mul(acth_basal_secretion, e.pituitary_mass)
               + Mul(200000, crh - 100000000)
               - Mul(Mul(acth_basal_secretion, fb.total), 500000)
               + simple_acth_mod(action) * 10
               - Mul(simple_k_acth, e.acth),
               dt),
         0, 200000000)

\* cortisol dynamics, acth being the updated ACTH level; the ultradian noise
\* is the first variate drawn from generator state s
simple_cortisol(e, action, acth, s) ==
    Clip(e.cortisol
         + Mul(Mul(_get_circadian_amplitude(e) \div 12, cortisol_basal_secretion)
               + Mul(Mul(150000, acth - 25000000), e.adrenal_mass)
               + stress_to_cortisol * e.stress_level
               + Mul(_get_ultradian_pulse(e, s, 0), 300000)
               + cortisol_mod(action) * 2
               - Mul(k_cortisol, e.cortisol),
               dt),
         0, 60000000)

\* the three hormone updates and the history append, given the new levels
simple_store(e, crh, acth, cortisol) ==
    [e EXCEPT !.crh              = crh,
              !.acth             = acth,
              !.ultradian_phase  = simple_ultradian_advance(e),
              !.cortisol         = cortisol,
              !.cortisol_history = deque_append(e.cortisol_history, cortisol,
                                                _hist_len)]

simple_cascade_acth(e, action, fb, s, crh, acth) ==
    simple_store(e, crh, acth, simple_cortisol(e, action, acth, s))

simple_cascade_crh(e, action, fb, s, crh) ==
    simple_cascade_acth(e, action, fb, s, crh, simple_acth(e, action, fb, crh))

simple_cascade(e, action, fb, s) ==
    simple_cascade_crh(e, action, fb, s, simple_crh(e, action, fb))

\* time advance
simple_time(e) ==
    IF e.time_hours + dt >= 24 * S
    THEN [e EXCEPT !.time_hours = e.time_hours + dt - 24 * S, !.day = e.day + 1]
    ELSE [e EXCEPT !.time_hours = e.time_hours + dt]

\* stress decay
stress_decay(x) == Max2(0, Mul(x, 980000) - 50000)

\* TRUE iff the step drawing from generator state s injects a stress event
simple_stress_event(s) == random(s, 1) < 20000

\* number of variates one step() draws from generator state s
SimpleStepDraws(s) == IF simple_stress_event(s) THEN 3 ELSE 2

\* stress decay and random stress events
simple_stress(e, s) ==
    [e EXCEPT !.stress_level =
        IF simple_stress_event(s)
        THEN Min2(10000000, stress_decay(e.stress_level) + choice(s, 2))
        ELSE stress_decay(e.stress_level)]

\* the step counter
simple_count(e) == [e EXCEPT !.current_step = e.current_step + 1]

\* the state of the instance when step() reaches the load computation
simple_dynamics(e, action, s) ==
    simple_count(
        simple_stress(
            simple_time(
                _update_gland_masses(
                    simple_cascade(e, action, _calculate_total_feedback(e), s))),
            s))

\* step(), the bookkeeping after the load computation and the values returned
simple_return(e, allostatic_load, action, s) ==
    [ env    |-> [e EXCEPT !.cumulative_load = e.cumulative_load + allostatic_load],
      load   |-> allostatic_load,
      reward |-> (- allostatic_load) + 5000000,
      done   |-> e.current_step >= e.max_steps,
      mods   |-> << simple_crh_mod(action), simple_acth_mod(action),
                    cortisol_mod(action) >>,
      rng    |-> Advance(s, SimpleStepDraws(s)) ]

\* step(), the load computation: the occupancies passed on are those computed
\* at the start of the step
simple_load(e, fb, action, s) ==
    simple_return(e, _calculate_allostatic_load(e, fb.mr_occ, fb.gr_occ),
                  action, s)

\* HPAEnvironment.step(action) of the simple model
simple_step(e, action, s) ==
    simple_load(simple_dynamics(e, action, s), _calculate_total_feedback(e),
                action, s)

\* _get_state of the simple model: the 12-entry observation vector
simple_get_state(e) ==
    << e.stress_level \div 10,
       e.crh \div 300,
       e.acth \div 100,
       e.cortisol \div 40,
       e.time_hours \div 24,
       (e.cortisol - np_mean(e.cortisol_history)) \div 10,
       _get_circadian_amplitude(e) \div 20,
       _calculate_total_feedback(e).mr_occ,
       _calculate_total_feedback(e).gr_occ,
       e.pituitary_mass \div 2,
       e.adrenal_mass \div 2,
       e.day * (S \div 10) >>

\* get_load_components() of the simple model: the state it leaves and the
\* components it returns
get_load_components(e) ==
    [ env  |-> e,
      info |-> [ cortisol_deviation   |-> Abs(e.cortisol - optimal_cortisol),
                 gland_pathology      |-> Abs(e.adrenal_mass - 1000000)
                                          + Abs(e.pituitary_mass - 1000000),
                 receptor_dysfunction |-> 2000000 - e.gr_receptors
                                          - e.mr_receptors,
                 cumulative_load      |-> e.cumulative_load ] ]

(***************************************************************************)
(* State machine                                                           *)
(***************************************************************************)
VARIABLES
    model,      \* which HPAEnvironment class the instance belongs to
    env,        \* the fields of the HPAEnvironment instance
    rng,        \* state of the module-level random generator
    reward,     \* reward returned by the last step() (0 before any step)
    done,       \* done flag returned by the last step() (FALSE before any)
    load,       \* allostatic load computed by the last step()
    mods,       \* (crh_mod, acth_mod, cort_mod) decoded by the last step()
    last_call,  \* the last call made on the instance, its argument and the
                \* number of step() calls since reset() at which it was made;
                \* for a step() of the extended model also the instance
                \* and generator state it was called in (from)
    calls,      \* number of step() calls since the last reset()
    envB,       \* a second instance in the same process, when there is one
    solo,       \* the run that makes only the calls made on env, when envB exists
    ops,        \* number of calls made on the two instances
    info        \* what the last call returned, when it was a diagnostic call

vars == << model, env, rng, reward, done, load, mods, last_call, calls,
          envB, solo, ops, info >>

\* the process holds one instance only
OneInstance == envB = << >> /\ solo = << >> /\ ops = 0

\* action indices of the declared range, DQNAgent(action_size=27)
n_actions == 27
ValidActions == 0 .. (n_actions - 1)

\* action indices the model passes to step()
StepInputs == {0, 13, 26, -1, 27}

\* generator states the process may start from
Seeds == 0 .. (NumSeeds - 1)

\* HPAEnvironment(max_steps=n): the constructor ends by calling reset()
Init ==
    \E s \in Seeds, n \in 1 .. MaxSteps :
        /\ model = "extended"
        /\ env = reset(s, n)
        /\ rng = Advance(s, ResetDraws)
        /\ reward = 0
        /\ done = FALSE
        /\ load = 0
        /\ mods = << 0, 0, 0 >>
        /\ last_call = [op |-> "init", action |-> 0, at |-> 0]
        /\ calls = 0
        /\ OneInstance
        /\ info = << >>

\* env.reset()
Reset ==
    /\ model = "extended"
    /\ env' = reset(rng, env.max_steps)
    /\ rng' = Advance(rng, ResetDraws)
    /\ reward' = 0
    /\ done' = FALSE
    /\ load' = 0
    /\ mods' = << 0, 0, 0 >>
    /\ last_call' = [op |-> "reset", action |-> 0, at |-> calls]
    /\ calls' = 0
    /\ info' = << >>
    /\ UNCHANGED << model, envB, solo, ops >>

\* env.step(action); step() has no precondition on the state or the action
Step(action) ==
    /\ model = "extended"
    /\ calls < env.max_steps + ExtraSteps
    /\ \E r \in {step(env, action, rng)} :
           /\ env' = r.env
           /\ rng' = r.rng
           /\ reward' = r.reward
           /\ done' = r.done
           /\ load' = r.load
           /\ mods' = r.mods
    /\ last_call' = [op |-> "step", action |-> action, at |-> calls,
                     from |-> [env |-> env, rng |-> rng]]
    /\ calls' = calls + 1
    /\ info' = << >>
    /\ UNCHANGED << model, envB, solo, ops >>

Next ==
    \/ Reset
    \/ \E action \in StepInputs : Step(action)

Spec == Init /\ [][Next]_vars

\* developmental stages the simple model is constructed with
Stages == {"infant", "adult"}

\* action indices of the declared range of the simple model,
\* CurriculumDQNAgent(action_size=9)
simple_action_size == 9
SimpleValidActions == 0 .. (simple_action_size - 1)

\* action indices the model passes to step() of the simple model
SimpleStepInputs == {0, 4, 8, -1, 9}

\* HPAEnvironment(developmental_stage=stage) of the simple model
SimpleInit ==
    \E stage \in Stages, s \in Seeds, n \in 1 .. MaxSteps :
        /\ model = "simple"
        /\ env = simple_init(stage, s, n)
        /\ rng = Advance(s, InitDraws)
        /\ reward = 0
        /\ done = FALSE
        /\ load = 0
        /\ mods = << 0, 0, 0 >>
        /\ last_call = [op |-> "init", action |-> 0, at |-> 0]
        /\ calls = 0
        /\ OneInstance
        /\ info = << >>

\* env.reset() of the simple model
SimpleReset ==
    /\ model = "simple"
    /\ env' = simple_reset(env, rng)
    /\ rng' = Advance(rng, SimpleResetDraws)
    /\ reward' = 0
    /\ done' = FALSE
    /\ load' = 0
    /\ mods' = << 0, 0, 0 >>
    /\ last_call' = [op |-> "reset", action |-> 0, at |-> calls]
    /\ calls' = 0
    /\ info' = << >>
    /\ UNCHANGED << model, envB, solo, ops >>

\* env.step(action) of the simple model; no precondition either
SimpleStep(action) ==
    /\ model = "simple"
    /\ calls < env.max_steps + ExtraSteps
    /\ \E r \in {simple_step(env, action, rng)} :
           /\ env' = r.env
           /\ rng' = r.rng
           /\ reward' = r.reward
           /\ done' = r.done
           /\ load' = r.load
           /\ mods' = r.mods
    /\ last_call' = [op |-> "step", action |-> action, at |-> calls]
    /\ calls' = calls + 1
    /\ info' = << >>
    /\ UNCHANGED << model, envB, solo, ops >>

SimpleNext ==
    \/ SimpleReset
    \/ \E action \in SimpleStepInputs : SimpleStep(action)

SpecSimple == SimpleInit /\ [][SimpleNext]_vars

\* an instance of either model
InitBoth == Init \/ SimpleInit

NextBoth == Next \/ SimpleNext

SpecBoth == InitBoth /\ [][NextBoth]_vars

\* env.get_state_info(); it has no precondition
GetStateInfo ==
    /\ model = "extended"
    /\ \E r \in {get_state_info(env)} :
           /\ env' = r.env
           /\ info' = r.info
    /\ last_call' = [op |-> "get_state_info", action |-> 0, at |-> calls]
    /\ UNCHANGED << model, rng, reward, done, load, mods, calls, envB, solo, ops >>

\* env.get_load_components() of the simple model; no precondition either
GetLoadComponents ==
    /\ model = "simple"
    /\ \E r \in {get_load_components(env)} :
           /\ env' = r.env
           /\ info' = r.info
    /\ last_call' = [op |-> "get_load_components", action |-> 0, at |-> calls]
    /\ UNCHANGED << model, rng, reward, done, load, mods, calls, envB, solo, ops >>

\* an instance of either model on which the diagnostic calls are made between
\* the calls of reset() and step(4)
SpecInfo ==
    InitBoth /\ [][ \/ Reset \/ Step(4) \/ GetStateInfo
                    \/ SimpleReset \/ SimpleStep(4) \/ GetLoadComponents ]_vars

\* cortisol levels of the range [0, 60] the load is evaluated at: the cell
\* boundaries and the optimal level
CortisolGrid ==
    { ((k * 60000) \div GridCells) * 1000 : k \in 0 .. GridCells }
    \cup {OPT_CORTISOL}

\* total stress levels the load is evaluated at
StressTotals == {0, 1000000, 3000000, 6000000, 7000000, 10000000}

\* an instance at the basal set-point (ACTH 25, CRH 100, AVP 4, masses and
\* densities 1, tones as reset() leaves them, flat history) but for its
\* cortisol level and its stress, which are drawn from the sets above
InitLoad ==
    \E c \in CortisolGrid, st \in StressTotals, stage \in Stages \cup {"extended"} :
        /\ model = (IF stage = "extended" THEN "extended" ELSE "simple")
        /\ env = IF stage = "extended"
                 THEN [reset(0, MaxSteps) EXCEPT
                          !.crh = OPT_CRH, !.acth = OPT_ACTH, !.avp = OPT_AVP,
                          !.beta_endorphin = BETAEP_BASAL,
                          !.cortisol = c, !._prev_cortisol = c,
                          !.cortisol_history = [i \in 1 .. _hist_len |-> c],
                          !.stress_physical = st \div 2,
                          !.stress_emotional = st - (st \div 2)]
                 ELSE [simple_init(stage, 0, MaxSteps) EXCEPT
                          !.cortisol = c,
                          !.cortisol_history = [i \in 1 .. _hist_len |-> c],
                          !.stress_level = st]
        /\ rng = 0
        /\ reward = 0
        /\ done = FALSE
        /\ load = 0
        /\ mods = << 0, 0, 0 >>
        /\ last_call = [op |-> "init", action |-> 0, at |-> 0]
        /\ calls = 0
        /\ OneInstance
        /\ info = << >>

\* the reward computation of step(): the load and the reward of the state the
\* instance is in, the occupancies handed to the load function being those of
\* the cortisol level c0 the step began at
ComputeLoad(c0) ==
    /\ \E occ \in { IF model = "extended"
                     THEN _receptor_occupancy([env EXCEPT !.cortisol = c0])
                     ELSE _calculate_receptor_occupancy(_cortisol_to_nmol(c0)) } :
         /\ info' = [cortisol |-> c0, mr |-> occ.mr, gr |-> occ.gr]
         /\ load' = IF model = "extended"
                    THEN _allostatic_load(env, occ.mr, occ.gr)
                    ELSE _calculate_allostatic_load(env, occ.mr, occ.gr)
    /\ reward' = IF model = "extended" THEN reward_of(load')
                 ELSE (- load') + 5000000
    /\ last_call' = [op |-> "load", action |-> 0, at |-> calls]
    /\ UNCHANGED << model, env, rng, done, mods, calls, envB, solo, ops >>

\* the receptor occupancies and the load as functions of the state: the step
\* began at the cortisol level it ends at, or at the optimal level
SpecLoad ==
    InitLoad /\ [][\E c0 \in {env.cortisol, OPT_CORTISOL} : ComputeLoad(c0)]_vars

\* an instance as reset() leaves it but for its stress pools, which start
\* from the levels g of a grid over [0, 10]; the generator is in a state s in
\* which step() injects no stress event; info keeps the levels started from
InitStress ==
    \E g \in { ((k * 10000) \div GridCells) * 1000 : k \in 0 .. GridCells },
       s \in { q \in Seeds : ~ stress_event(q) },
       stage \in Stages \cup {"extended"} :
        /\ model = (IF stage = "extended" THEN "extended" ELSE "simple")
        /\ env = IF stage = "extended"
                 THEN [reset(0, MaxSteps) EXCEPT
                          !.stress_physical  = g,
                          !.stress_emotional = 10 * S - g]
                 ELSE [simple_init(stage, 0, MaxSteps) EXCEPT
                          !.stress_level = g]
        /\ info = IF stage = "extended"
                  THEN << g, 10 * S - g >>
                  ELSE << g >>
        /\ rng = s
        /\ reward = 0
        /\ done = FALSE
        /\ load = 0
        /\ mods = << 0, 0, 0 >>
        /\ last_call = [op |-> "init", action |-> 0, at |-> 0]
        /\ calls = 0
        /\ OneInstance

\* the stress update of a step() of the extended model
StressStep ==
    /\ model = "extended"
    /\ env' = step_stress(env, rng)
    /\ last_call' = [op |-> "stress", action |-> 0, at |-> calls,
                     from |-> [env |-> env, rng |-> rng]]
    /\ UNCHANGED << model, rng, reward, done, load, mods, calls, envB, solo,
                    ops, info >>

\* the stress update of a step() of the simple model
SimpleStressStep ==
    /\ model = "simple"
    /\ env' = simple_stress(env, rng)
    /\ last_call' = [op |-> "stress", action |-> 0, at |-> calls,
                     from |-> [env |-> env, rng |-> rng]]
    /\ UNCHANGED << model, rng, reward, done, load, mods, calls, envB, solo,
                    ops, info >>

\* the stress pools over a run of steps without stress events; every step of
\* the run is taken
SpecStress ==
    /\ InitStress
    /\ [][StressStep \/ SimpleStressStep]_vars
    /\ WF_vars(StressStep \/ SimpleStressStep)

\* an instance as reset() leaves it but for its arcuate metabolic drive,
\* which is drawn from a grid over [-1, 1]
InitArcuate ==
    \E k \in 0 .. GridCells, s \in Seeds :
        /\ model = "extended"
        /\ env = [reset(s, MaxSteps) EXCEPT
                     !.arcuate_metabolic_drive =
                         ((k * 2000) \div GridCells) * 1000 - 1000000]
        /\ rng = Advance(s, ResetDraws)
        /\ reward = 0
        /\ done = FALSE
        /\ load = 0
        /\ mods = << 0, 0, 0 >>
        /\ last_call = [op |-> "init", action |-> 0, at |-> 0]
        /\ calls = 0
        /\ OneInstance
        /\ info = << >>

\* the CRH and ACTH updates of step(action), on the instance state as it is:
\* info is the pair of levels they leave
Produce(action) ==
    /\ model = "extended"
    /\ \E fb \in {_total_negative_feedback(step_prev(env))} :
         \E crh1 \in {cascade_crh(env, action, fb)} :
           info' = [crh  |-> crh1,
                    acth |-> cascade_acth(env, crh1, action, fb)]
    /\ last_call' = [op |-> "produce", action |-> action, at |-> calls]
    /\ UNCHANGED << model, env, rng, reward, done, load, mods, calls, envB,
                    solo, ops >>

\* the CRH and ACTH productions as functions of the arcuate drive
SpecArcuate ==
    InitArcuate /\ [][\E action \in {0, 13, 26} : Produce(action)]_vars

\* an instance in the course of an episode: as reset() leaves it but for its
\* ACTH and cortisol levels, its gland masses and its receptor densities,
\* which are drawn from their declared ranges (masses in [0.5, 2], densities
\* from their lower clip bound up to the value 1 that reset() assigns)
InitGlands ==
    \E a \in {5 * S, 15 * S, 30 * S, 60 * S, 120 * S},
       c \in {3 * S, 8 * S, 15 * S, 30 * S, 50 * S},
       m \in {500000, 500050, 1000000, 1500000, 1500050, 2000000},
       r \in {300000, 900000, 1000000},
       stage \in Stages \cup {"extended"} :
        /\ model = (IF stage = "extended" THEN "extended" ELSE "simple")
        /\ env = IF stage = "extended"
                 THEN [reset(0, 1) EXCEPT
                          !.acth = a, !.cortisol = c, !._prev_cortisol = c,
                          !.adrenal_mass = m, !.pituitary_mass = m,
                          !.gr_receptors = r,
                          !.mr_receptors = Max2(r, 500000)]
                 ELSE [simple_init(stage, 0, 1) EXCEPT
                          !.acth = a, !.cortisol = c,
                          !.adrenal_mass = m, !.pituitary_mass = m,
                          !.gr_receptors = r,
                          !.mr_receptors = Max2(r, 500000)]
        /\ rng = 1
        /\ reward = 0
        /\ done = FALSE
        /\ load = 0
        /\ mods = << 0, 0, 0 >>
        /\ last_call = [op |-> "init", action |-> 0, at |-> 0]
        /\ calls = 0
        /\ OneInstance
        /\ info = << >>

\* steps from the states above, with the middle action of each model's range
SpecGlands == InitGlands /\ [][Step(13) \/ SimpleStep(4)]_vars

\* action indices passed to step() when two instances are driven
TwoInputs == {13}

\* A = HPAEnvironment(max_steps=n) followed by B = HPAEnvironment(max_steps=n);
\* both constructors draw from the module-level generator
InitTwo ==
    \E s \in Seeds, n \in 1 .. MaxSteps :
        /\ model = "extended"
        /\ env = reset(s, n)
        /\ envB = reset(Advance(s, ResetDraws), n)
        /\ rng = Advance(s, 2 * ResetDraws)
        /\ solo = [ env |-> reset(s, n), rng |-> Advance(s, ResetDraws),
                    reward |-> 0, done |-> FALSE ]
        /\ reward = 0
        /\ done = FALSE
        /\ load = 0
        /\ mods = << 0, 0, 0 >>
        /\ last_call = [op |-> "init", action |-> 0, at |-> 0]
        /\ calls = 0
        /\ ops = 0
        /\ info = << >>

\* A.reset()
ResetA ==
    /\ ops < MaxOps
    /\ env' = reset(rng, env.max_steps)
    /\ rng' = Advance(rng, ResetDraws)
    /\ solo' = [ env |-> reset(solo.rng, env.max_steps),
                 rng |-> Advance(solo.rng, ResetDraws),
                 reward |-> 0, done |-> FALSE ]
    /\ reward' = 0
    /\ done' = FALSE
    /\ load' = 0
    /\ mods' = << 0, 0, 0 >>
    /\ last_call' = [op |-> "reset", action |-> 0, at |-> calls]
    /\ calls' = 0
    /\ ops' = ops + 1
    /\ UNCHANGED << model, envB, info >>

\* A.step(action)
StepA(action) ==
    /\ ops < MaxOps
    /\ calls < env.max_steps + ExtraSteps
    /\ \E r \in {step(env, action, rng)} :
           /\ env' = r.env
           /\ rng' = r.rng
           /\ reward' = r.reward
           /\ done' = r.done
           /\ load' = r.load
           /\ mods' = r.mods
    /\ \E r \in {step(solo.env, action, solo.rng)} :
           solo' = [ env |-> r.env, rng |-> r.rng,
                     reward |-> r.reward, done |-> r.done ]
    /\ last_call' = [op |-> "step", action |-> action, at |-> calls]
    /\ calls' = calls + 1
    /\ ops' = ops + 1
    /\ UNCHANGED << model, envB, info >>

\* B.reset()
ResetB ==
    /\ ops < MaxOps
    /\ envB' = reset(rng, envB.max_steps)
    /\ rng' = Advance(rng, ResetDraws)
    /\ last_call' = [op |-> "resetB", action |-> 0, at |-> calls]
    /\ ops' = ops + 1
    /\ UNCHANGED << model, env, reward, done, load, mods, calls, solo, info >>

\* B.step(action) when cortisol_history is one deque of the class, shared by
\* the instances
StepB_class_history(action) ==
    /\ ops < MaxOps
    /\ envB.current_step < envB.max_steps + ExtraSteps
    /\ \E r \in {step(envB, action, rng)} :
           /\ envB' = r.env
           /\ rng' = r.rng
           /\ env' = [env EXCEPT !.cortisol_history = r.env.cortisol_history]
    /\ last_call' = [op |-> "stepB", action |-> action, at |-> calls]
    /\ ops' = ops + 1
    /\ UNCHANGED << model, reward, done, load, mods, calls, solo, info >>

\* B.step(action)
StepB(action) ==
    /\ ops < MaxOps
    /\ envB.current_step < envB.max_steps + ExtraSteps
    /\ \E r \in {step(envB, action, rng)} :
           /\ envB' = r.env
           /\ rng' = r.rng
    /\ last_call' = [op |-> "stepB", action |-> action, at |-> calls]
    /\ ops' = ops + 1
    /\ UNCHANGED << model, env, reward, done, load, mods, calls, solo, info >>

NextTwo ==
    \/ ResetA
    \/ ResetB
    \/ \E action \in TwoInputs : StepA(action)
    \/ \E action \in TwoInputs : StepB(action)

SpecTwo == InitTwo /\ [][NextTwo]_vars

\* every action of the declared range, applied to a freshly reset instance
DecodeStep == \E action \in ValidActions : calls = 0 /\ Step(action)

SpecDecode == Init /\ [][DecodeStep]_vars

(***************************************************************************)
(* Properties                                                              *)
(***************************************************************************)
stepped == last_call.op = "step"

InRange(x, lo, hi) == lo <= x /\ x <= hi

\* the declared closed interval of every bounded state variable
Bounded(e) ==
    /\ InRange(e.crh, 0, 400000000)
    /\ InRange(e.acth, 0, 200000000)
    /\ InRange(e.cortisol, 0, 60000000)
    /\ InRange(e.avp, 500000, 30000000)
    /\ InRange(e.beta_endorphin, 0, 40000000)
    /\ InRange(e.adrenal_mass, 500000, 2000000)
    /\ InRange(e.pituitary_mass, 500000, 2000000)
    /\ InRange(e.gr_receptors, 300000, 1500000)
    /\ InRange(e.mr_receptors, 500000, 1200000)
    /\ InRange(e.crfr1_density, 200000, 1500000)
    /\ InRange(e.crfr2_density, 500000, 1800000)
    /\ InRange(e.cea_activity, 0, 1000000)
    /\ InRange(e.mea_activity, 0, 1000000)
    /\ InRange(e.pfc_inhibition, 0, 1000000)
    /\ InRange(e.lc_activity, 0, 1000000)
    /\ InRange(e.sfo_drive, 0, 1000000)
    /\ InRange(e.nts_drive, 0, 1000000)
    /\ InRange(e.gaba_inhibition, 0, 1000000)
    /\ InRange(e.hippocampal_damage, 0, 1000000)
    /\ InRange(e.arcuate_metabolic_drive, -1000000, 1000000)
    /\ InRange(e.cea_sensitisation, 0, 2000000)
    /\ InRange(e.chronic_stress_index, 0, 5000000)
    /\ InRange(e.stress_physical, 0, 10000000)
    /\ InRange(e.stress_emotional, 0, 10000000)

\* C1: after every step(action) of the extended model, every bounded state
\* variable lies in its declared closed interval.
C1_BoundedAfterStep == stepped => Bounded(env)

\* C1 witness: a step whose stress spike was cut at the cap of 10.
C1_Witness ==
    /\ stepped
    /\ env.stress_physical = 10000000

\* C2: counting from reset() (or construction), the done flag returned by the
\* k-th step() is false for every k < max_steps and true at k = max_steps.
C2_DoneAtHorizon ==
    (stepped /\ calls <= env.max_steps) => (done <=> calls = env.max_steps)

\* C2 witness: the horizon step of an episode longer than one step has
\* returned done.
C2_Witness ==
    /\ stepped
    /\ env.max_steps > 1
    /\ calls = env.max_steps
    /\ done

\* the declared action range of the instance's class
ActionRange == IF model = "extended" THEN ValidActions ELSE SimpleValidActions

\* C3: once a step() has returned done, a further step() does not change the
\* instance, and the step counter never exceeds max_steps.
C3_NoStepAfterDone ==
    [][ (last_call'.op = "step" /\ last_call'.action \in ActionRange) =>
            /\ done => env' = env
            /\ env'.current_step <= env'.max_steps ]_vars

\* C4: step(action) with an action index outside the declared range leaves
\* the environment state unchanged.
C4_InvalidActionRejected ==
    [][ (last_call'.op = "step" /\ last_call'.action \notin ActionRange)
            => env' = env ]_vars

\* the triples of {-1, 0, +1}
Triples == { << a, b, c >> : a \in {-1, 0, 1}, b \in {-1, 0, 1}, c \in {-1, 0, 1} }

\* a triple scaled by 0.3, 0.5 and 0.8
Scaled(t) == << t[1] * 300000, t[2] * 500000, t[3] * 800000 >>

\* the base-3 index of a triple
Encode(t) == (t[1] + 1) + 3 * (t[2] + 1) + 9 * (t[3] + 1)

\* C5: over the actions 0..26 the decoded modifiers are the scaled triple
\* whose base-3 index is the action, and every triple of {-1,0,+1}^3 is the
\* decoding of exactly one action.
C5_DecodeBijection ==
    /\ stepped =>
          \E t \in Triples : /\ Encode(t) = last_call.action
                             /\ mods = Scaled(t)
    /\ \A t \in Triples :
          Cardinality({ a \in ValidActions :
                          << crh_mod(a), acth_mod(a), cort_mod(a) >> = Scaled(t) }) = 1

\* C5 witness: action 26 has been decoded to (+0.3, +0.5, +0.8).
C5_Witness ==
    /\ stepped
    /\ last_call.action = 26
    /\ mods = << 300000, 500000, 800000 >>

\* C6: the reward returned by a step is 5.0 minus the load of that step, the
\* load is non-negative and the reward is at most 5.0.
C6_RewardIsOffsetMinusLoad ==
    stepped => /\ reward + load = 5000000
               /\ load >= 0
               /\ reward <= 5000000

\* C6 witness: a step whose load exceeded the offset, so the reward is negative.
C6_Witness ==
    /\ stepped
    /\ load > 5000000
    /\ reward < 0

\* C7: the load of a step is the load of the post-update state, the occupancy
\* terms being those of the post-update cortisol.
C7_LoadOfPostState ==
    (stepped /\ last_call.action \in ValidActions) =>
        load = _allostatic_load(env, _receptor_occupancy(env).mr,
                                _receptor_occupancy(env).gr)

\* one step of the history: the newest sample appended, the oldest evicted
HistoryShift(old, new, x) == new = Append(Tail(old), x)

\* C10: the cortisol history holds exactly 50 samples in every state; reset()
\* fills it with 50 copies of the initial cortisol; step() appends the new
\* cortisol as the newest element and evicts exactly the oldest.
C10_RollingHistory ==
    /\ [](Len(env.cortisol_history) = 50)
    /\ [][ /\ (last_call'.op = "reset" /\ calls' = 0) =>
                \A i \in 1 .. 50 : env'.cortisol_history[i] = env'.cortisol
           /\ (calls' = calls + 1) =>
                HistoryShift(env.cortisol_history, env'.cortisol_history,
                             env'.cortisol) ]_vars

\* C10 witness: after two steps the two newest samples differ from each other
\* and from the 48 copies left from reset().
C10_Witness ==
    /\ stepped
    /\ calls = 2
    /\ Len(env.cortisol_history) = 50
    /\ env.cortisol_history[50] = env.cortisol
    /\ env.cortisol_history[49] # env.cortisol
    /\ env.cortisol_history[48] # env.cortisol_history[49]
    /\ env.cortisol_history[1] = env.cortisol_history[48]

\* C9 as stated: whatever calls are made on B in between, A's state and the
\* values it returns are those of the run that makes A's calls alone.
C9_SameAsAlone ==
    /\ env = solo.env
    /\ reward = solo.reward
    /\ done = solo.done

\* C9: a reset() or step() on B changes no field of A and none of the values
\* A has returned; what it changes besides B is the state of the module-level
\* random generator, from which A's next call draws.
C9_OnlyGeneratorShared ==
    [][ last_call'.op \in {"resetB", "stepB"} /\ ops' = ops + 1 =>
            /\ env' = env
            /\ reward' = reward
            /\ done' = done
            /\ load' = load
            /\ rng' # rng ]_vars

\* C9 witness: B has just stepped after A has stepped, A having drawn other
\* variates than it draws alone.
C9_Witness ==
    /\ last_call.op = "stepB"
    /\ calls >= 1
    /\ env.current_step = calls
    /\ env.cortisol # solo.env.cortisol

\* C11: time-of-day lies in [0, 24) in every state; a step() advances it by
\* dt, and when the advance reaches 24 it subtracts 24 and adds exactly 1 to
\* the day counter, which a step() changes in no other way; reset() starts
\* the day counter at 0.
C11_TimeOfDayWraps ==
    /\ [](0 <= env.time_hours /\ env.time_hours < 24 * S)
    /\ [][ /\ (last_call'.op = "step") =>
                IF env.time_hours + dt >= 24 * S
                THEN /\ env'.time_hours = env.time_hours + dt - 24 * S
                     /\ env'.day = env.day + 1
                ELSE /\ env'.time_hours = env.time_hours + dt
                     /\ env'.day = env.day
           /\ (last_call'.op = "reset") => env'.day = 0 ]_vars

\* C11 witness: a step has carried the clock past midnight into day 1.
C11_Witness ==
    /\ stepped
    /\ env.day = 1
    /\ env.time_hours < dt

\* C12: after reset() and after every step() the stored ultradian phase lies
\* in [0, 2 pi).
C12_PhaseWrapped ==
    /\ 0 <= env.ultradian_phase
    /\ env.ultradian_phase < TWO_PI

\* a diagnostic call has just returned
diagnosed == last_call.op \in {"get_state_info", "get_load_components"}

\* C13: get_state_info() and get_load_components() leave every state variable
\* of the instance unchanged, the fast feedback signal included, as well as
\* the random generator and the values the last step returned; the snapshot
\* shows the values of the state it was taken in.
C13_DiagnosticsReadOnly ==
    /\ [][ (last_call'.op \in {"get_state_info", "get_load_components"}) =>
              /\ env' = env
              /\ rng' = rng
              /\ reward' = reward /\ done' = done /\ load' = load
              /\ calls' = calls ]_vars
    /\ [](diagnosed => info.cumulative_load = env.cumulative_load)

\* C13 witness: get_state_info() has returned after a step in which cortisol
\* rose, the fast feedback signal still being what the step left.
C13_Witness ==
    /\ last_call.op = "get_state_info"
    /\ calls >= 1
    /\ env.cortisol > env._prev_cortisol
    /\ env._fast_feedback_signal = 0
    /\ info.cortisol_ug_dl = env.cortisol

\* the fields both models have, as reset() leaves them
ResetCommon(e) ==
    /\ e.current_step = 0
    /\ e.cumulative_load = 0
    /\ e.day = 0
    /\ e.mr_receptors = 1000000 /\ e.gr_receptors = 1000000
    /\ e.pituitary_mass = 1000000 /\ e.adrenal_mass = 1000000
    /\ Len(e.cortisol_history) = 50
    /\ \A i \in 1 .. 50 : e.cortisol_history[i] = e.cortisol

\* the fields of the extended model alone, as reset() leaves them
ResetExtended(e) ==
    /\ e.chronic_stress_index = 0
    /\ e.hippocampal_damage = 0
    /\ e.cea_sensitisation = 0
    /\ e._fast_feedback_signal = 0
    /\ e._prev_cortisol = e.cortisol
    /\ e.crfr1_density = 1000000 /\ e.crfr2_density = 1000000
    /\ e.melanocortin_tone = 1000000
    /\ e.ucn1 = 1000000 /\ e.ucn23 = 1000000
    /\ e.nts_drive = 200000 /\ e.gaba_inhibition = 300000
    /\ e.sfo_drive = 200000
    /\ e.cea_activity = 200000 /\ e.mea_activity = 200000
    /\ e.pfc_inhibition = 400000 /\ e.lc_activity = 200000
    /\ e.arcuate_metabolic_drive = 0

\* the states reset() leaves on a newly constructed instance of the same
\* class, stage and horizon, over the states of the generator
FreshResets(e) ==
    IF model = "extended"
    THEN { reset(s, e.max_steps) : s \in 0 .. (Len(UniformTable) - 1) }
    ELSE { simple_reset(simple_init(e.stage, 0, e.max_steps), s) :
             s \in 0 .. (Len(UniformTable) - 1) }

\* C14: after reset(), whatever steps preceded it, the counters, the load,
\* the damage and sensitisation variables and the fast feedback signal are 0,
\* densities and masses are 1.0, the limbic tones are at their basal
\* constants, the history holds 50 copies of the new cortisol, and the whole
\* state is one that reset() leaves on a new instance: nothing is kept.
C14_ResetReinitializes ==
    (last_call.op = "reset") =>
        /\ ResetCommon(env)
        /\ model = "extended" => ResetExtended(env)
        /\ env \in FreshResets(env)

\* C14 witness: reset() has been called on an instance that had stepped past
\* its horizon, and left the step counter and the load at 0.
C14_Witness ==
    /\ last_call.op = "reset"
    /\ last_call.at > env.max_steps
    /\ env.current_step = 0
    /\ env.cumulative_load = 0

\* positions (counted from 1) of the observation entries the class docstring
\* documents as (0-1): the two stress components, time_of_day, mr_occupancy,
\* gr_occupancy and hippocampal_damage
UnitEntries == {1, 2, 12, 15, 16, 18}

\* C15: in the observation returned by reset() and by every step() of the
\* extended model, the entries documented as (0-1) lie in [0, 1].
C15_ObservationUnitRange ==
    (model = "extended" /\ last_call.op \in {"reset", "step"}) =>
        \A i \in UnitEntries :
            0 <= _get_state(env)[i] /\ _get_state(env)[i] <= S

\* the load computation has just been made
appraised == last_call.op = "load"

\* the occupancies the instance's class computes at cortisol level c
OccupancyAt(c) ==
    IF model = "extended"
    THEN _receptor_occupancy([env EXCEPT !.cortisol = c])
    ELSE _calculate_receptor_occupancy(_cortisol_to_nmol(c))

\* C16: the MR and GR occupancies are exactly 0 at cortisol 0, strictly below
\* 1 over [0, 60], strictly increasing in cortisol, and the MR occupancy is
\* at least the GR occupancy.
C16_OccupancyCurve ==
    appraised =>
        /\ info.cortisol = 0 => (info.mr = 0 /\ info.gr = 0)
        /\ info.mr >= 0 /\ info.gr >= 0
        /\ info.mr < S /\ info.gr < S
        /\ info.mr >= info.gr
        /\ \A c \in CortisolGrid :
              c > info.cortisol => /\ OccupancyAt(c).mr > info.mr
                                   /\ OccupancyAt(c).gr > info.gr

\* C16 witness: at cortisol 60 both occupancies are above 0.99 and below 1,
\* MR above GR.
C16_Witness ==
    /\ appraised
    /\ info.cortisol = 60 * S
    /\ info.gr > 990000
    /\ info.mr > info.gr
    /\ info.mr < S

\* the instance is at the basal set-point and so was the step's start
AtSetPoint ==
    /\ env.cortisol = 15000000 /\ info.cortisol = 15000000
    /\ env.acth = 25000000 /\ env.crh = 100000000
    /\ env.pituitary_mass = 1000000 /\ env.adrenal_mass = 1000000
    /\ env.mr_receptors = 1000000 /\ env.gr_receptors = 1000000
    /\ (IF model = "extended" THEN stress_level(env) ELSE env.stress_level) = 0
    /\ \A i \in 1 .. 50 : env.cortisol_history[i] = env.cortisol

\* the cortisol-deviation, tissue-damage and gland-pathology terms
SetPointTerms ==
    IF model = "extended"
    THEN << load_deviation(env), load_tissue(env), load_glands(env) >>
    ELSE << deviation_cost(env), tissue_damage(env), gland_cost(env) >>

LoadAt(c) == _allostatic_load([env EXCEPT !.cortisol = c], info.mr, info.gr)

\* the load rises from the instance's cortisol level to every lower one
LowerTail ==
    \A c \in CortisolGrid :
        (env.cortisol < 8000000 /\ c < env.cortisol) => LoadAt(c) > load

\* the load rises from the instance's cortisol level to every higher one
UpperTail ==
    \A c \in CortisolGrid :
        (env.cortisol > 22000000 /\ c > env.cortisol) => LoadAt(c) > load

C19_FastFeedbackTracksRise ==
    [][ ( /\ model = "extended"
          /\ stepped
          /\ env.cortisol > env._prev_cortisol
          /\ last_call'.op = "step" )
        => /\ env'._fast_feedback_signal > 0
           /\ _total_negative_feedback(step_prev(env)).total
                  = _slow_genomic_feedback(env, _receptor_occupancy(env).mr,
                                           _receptor_occupancy(env).gr)
                    + Mul(300000, env'._fast_feedback_signal)
                    + Mul(400000,
                          _hippocampal_feedback(env, _receptor_occupancy(env).mr,
                                                _receptor_occupancy(env).gr))
      ]_vars

\* the last call was a step() of the extended model
cascaded == model = "extended" /\ stepped

\* the instance state when step() reaches the hormone cascade, for a step()
\* called in instance state e
AtCascade(e) ==
    step_limbic(step_feedback(step_prev(e),
                              _total_negative_feedback(step_prev(e))),
                _total_negative_feedback(step_prev(e)))

\* instance state e with the CeA activity and the PFC inhibition of state e2
WithLimbicOf(e, e2) ==
    [e EXCEPT !.cea_activity   = e2.cea_activity,
              !.pfc_inhibition = e2.pfc_inhibition]

\* NTS drive and GABA inhibition that _update_upstream_signals computes in
\* instance state e
UpstreamOf(e) ==
    << _update_upstream_signals(e, _receptor_occupancy(e).mr,
                                _receptor_occupancy(e).gr).nts_drive,
       _update_upstream_signals(e, _receptor_occupancy(e).mr,
                                _receptor_occupancy(e).gr).gaba_inhibition >>

\* the step() called in instance state e0 with generator state s left state e
\* and load l by a single pass in which every later subsystem read the values
\* the same step had already updated
SinglePass(e0, s, action, e, l) ==
    /\ << e.nts_drive, e.gaba_inhibition >> = UpstreamOf(WithLimbicOf(e0, e))
    /\ e.crh = cascade_crh(AtCascade(e0), action,
                           _total_negative_feedback(step_prev(e0)))
    /\ e.acth = cascade_acth(AtCascade(e0), e.crh, action,
                             _total_negative_feedback(step_prev(e0)))
    /\ e.cortisol = cascade_cortisol(AtCascade(e0), e.acth, action, s)
    /\ l = _allostatic_load(e, _receptor_occupancy(e0).mr,
                            _receptor_occupancy(e0).gr)

\* C20: a step() of the extended model is a single pass in the documented
\* order: NTS and GABA are computed from the CeA and PFC values updated in
\* this step, ACTH from the CRH updated in this step, cortisol from the ACTH
\* updated in this step, and the load from the state after the stress and
\* chronic-index updates.
C20_SinglePassOrder ==
    cascaded =>
        SinglePass(last_call.from.env, last_call.from.rng, last_call.action,
                   env, load)

\* C20 witness: a step() after which every value read by a later subsystem
\* differs from the one of the previous step, and the values computed from
\* the previous step's CeA/PFC, CRH, ACTH, stress and chronic index are not
\* the ones the step left.
C20_Witness ==
    /\ cascaded
    /\ env.cea_activity # last_call.from.env.cea_activity
    /\ env.pfc_inhibition # last_call.from.env.pfc_inhibition
    /\ << env.nts_drive, env.gaba_inhibition >> # UpstreamOf(last_call.from.env)
    /\ env.crh # last_call.from.env.crh
    /\ env.acth # cascade_acth(AtCascade(last_call.from.env),
                               last_call.from.env.crh, last_call.action,
                               _total_negative_feedback(
                                   step_prev(last_call.from.env)))
    /\ env.cortisol # cascade_cortisol(AtCascade(last_call.from.env),
                                       last_call.from.env.acth,
                                       last_call.action, last_call.from.rng)
    /\ stress_level(env) # stress_level(last_call.from.env)
    /\ env.chronic_stress_index # last_call.from.env.chronic_stress_index
    /\ load # _allostatic_load(
                  [env EXCEPT !.stress_physical =
                                  last_call.from.env.stress_physical,
                              !.stress_emotional =
                                  last_call.from.env.stress_emotional,
                              !.chronic_stress_index =
                                  last_call.from.env.chronic_stress_index],
                  _receptor_occupancy(last_call.from.env).mr,
                  _receptor_occupancy(last_call.from.env).gr)

\* spike magnitudes of a stress event
Magnitudes == {2 * S, 5 * S, 8 * S}

\* the level a stress pool at level x decays to in one step of the extended
\* model
Decayed(x) == Max2(0, Mul(x, 970000) - 30000)

\* pool level x1 is the pool level x0 after one step that added a spike
Spiked(x0, x1) ==
    \E m \in Magnitudes : x1 = Min2(10 * S, Decayed(x0) + m)

\* pool levels p1, e1 follow the levels p0, e0 by one step: at most one pool
\* received a spike, and a pool that rose received one
OneSpike(p0, e0, p1, e1) ==
    /\ \/ p1 = Decayed(p0) /\ e1 = Decayed(e0)
       \/ Spiked(p0, p1)   /\ e1 = Decayed(e0)
       \/ p1 = Decayed(p0) /\ Spiked(e0, e1)
    /\ p1 > p0 => (Spiked(p0, p1) /\ e1 = Decayed(e0))
    /\ e1 > e0 => (Spiked(e0, e1) /\ p1 = Decayed(p0))

\* C21: in a step of the extended model at most one stress pool receives a
\* spike, of magnitude 2, 5 or 8, and the pool is capped at 10; a pool rises
\* only through a spike, and both pools stay in [0, 10].
C21_StressInjection ==
    /\ model = "extended" =>
           /\ InRange(env.stress_physical, 0, 10 * S)
           /\ InRange(env.stress_emotional, 0, 10 * S)
    /\ cascaded =>
           OneSpike(last_call.from.env.stress_physical,
                    last_call.from.env.stress_emotional,
                    env.stress_physical, env.stress_emotional)

\* C21 witness: a step whose spike took the physical pool to the cap of 10
\* while the emotional pool decayed.
C21_Witness ==
    /\ cascaded
    /\ env.stress_physical = 10 * S
    /\ Decayed(last_call.from.env.stress_physical) < 10 * S
    /\ env.stress_emotional = Decayed(last_call.from.env.stress_emotional)
    /\ env.stress_emotional < last_call.from.env.stress_emotional

\* the last call was the stress update of a step without stress event
relaxed == last_call.op = "stress"

\* the stress pools of instance state e
Pools(e) ==
    IF model = "extended"
    THEN << e.stress_physical, e.stress_emotional >>
    ELSE << e.stress_level >>

\* every pool of instance state e is at 0
PoolsEmpty(e) == \A i \in DOMAIN Pools(e) : Pools(e)[i] = 0

\* the pools of state e1 follow those of state e0 by max(0, 0.97 x - 0.03) in
\* the extended and max(0, 0.98 x - 0.05) in the simple model
DecayStep(e0, e1) ==
    \A i \in DOMAIN Pools(e0) :
        /\ Pools(e1)[i] = IF model = "extended"
                          THEN Max2(0, Mul(Pools(e0)[i], 970000) - 30000)
                          ELSE Max2(0, Mul(Pools(e0)[i], 980000) - 50000)
        /\ Pools(e1)[i] <= Pools(e0)[i]
        /\ Pools(e0)[i] = 0 => Pools(e1)[i] = 0

\* C22: without stress events every stress pool is non-increasing from step
\* to step, follows max(0, 0.97 x - 0.03) in the extended and
\* max(0, 0.98 x - 0.05) in the simple model, reaches exactly 0 after finitely
\* many steps from any level in [0, 10], and stays at 0.
C22_DecayToZero ==
    /\ [](relaxed => DecayStep(last_call.from.env, env))
    /\ <>[]PoolsEmpty(env)

\* C22 witness: the step in which a pool that started from 10 reaches 0.
C22_Witness ==
    /\ relaxed
    /\ \E i \in DOMAIN info :
           /\ info[i] = 10 * S
           /\ Pools(last_call.from.env)[i] > 0
           /\ Pools(env)[i] = 0

\* the total stress level of the instance
TotalStress == IF model = "extended" THEN stress_level(env) ELSE env.stress_level

\* the stress-response appropriateness cost of the instance's state
StressTerm ==
    IF model = "extended"
    THEN load_stress_response(env)
    ELSE stress_response_cost(env)

\* C23 as stated: at a stress level below 2 the stress-response cost is
\* positive when cortisol is unexpectedly low (below the tolerance window,
\* 15 - 7).
C23_LowCortisolPenalised ==
    (appraised /\ TotalStress < 2 * S /\ env.cortisol < OPT_CORTISOL - TOL_CORTISOL)
        => StressTerm > 0

\* C23: at a stress level below 2 the stress-response cost is positive
\* exactly when cortisol is above 25 and zero for every lower cortisol; at a
\* stress level above 6 it is positive exactly when cortisol is more than 10
\* away from 20 + 2 x stress; in between it is zero.
C23_ElevationPenalised ==
    appraised =>
        /\ TotalStress < 2 * S => (StressTerm > 0 <=> env.cortisol > 25 * S)
        /\ TotalStress > 6 * S =>
               (StressTerm > 0 <=>
                   Abs(env.cortisol - (20 * S + 2 * TotalStress)) > 10 * S)
        /\ (TotalStress >= 2 * S /\ TotalStress <= 6 * S) => StressTerm = 0
        /\ StressTerm >= 0

\* C23 witness: at total stress 1 and cortisol 30 the cost is charged.
C23_Witness ==
    /\ appraised
    /\ TotalStress = 1 * S
    /\ env.cortisol = 30 * S
    /\ StressTerm > 0

\* the last call was reset(): no step() has run since
fresh == last_call.op = "reset"

\* C24: right after reset(), before any step, every bounded hormone lies in
\* its declared interval, whatever the random perturbation: cortisol in
\* [0, 60], ACTH in [0, 200], CRH in [0, 400], and in the extended model AVP
\* in [0.5, 30] and beta-endorphin in [0, 40].
C24_ResetWithinBounds ==
    fresh =>
        /\ InRange(env.cortisol, 0, 60 * S)
        /\ InRange(env.acth, 0, 200 * S)
        /\ InRange(env.crh, 0, 400 * S)
        /\ model = "extended" =>
               /\ InRange(env.avp, 500000, 30 * S)
               /\ InRange(env.beta_endorphin, 0, 40 * S)

\* the last call computed the CRH and ACTH productions
produced == last_call.op = "produce"

\* the instance state with the arcuate metabolic drive d
WithDrive(d) == [env EXCEPT !.arcuate_metabolic_drive = d]

\* the CRH level the last call computes at arcuate drive d
CrhAt(d) ==
    cascade_crh(WithDrive(d), last_call.action,
                _total_negative_feedback(step_prev(WithDrive(d))))

\* the ACTH level the last call computes at arcuate drive d, from the CRH
\* level it computed
ActhAt(d) ==
    cascade_acth(WithDrive(d), info.crh, last_call.action,
                 _total_negative_feedback(step_prev(WithDrive(d))))

\* x exceeds y by the boost b integrated over one step, up to the rounding of
\* the last digit
BoostedBy(x, y, b) == Abs((x - y) - Mul(b, dt)) <= 1

\* C25: for every arcuate drive d in [-1, 1] the CRH and ACTH productions are
\* the same for d and -d, and exceed those at drive 0 by the non-negative
\* boosts 10 |d| and 5 |d|.
C25_ArcuateBoostByMagnitude ==
    produced =>
        /\ info.crh = CrhAt(- env.arcuate_metabolic_drive)
        /\ info.acth = ActhAt(- env.arcuate_metabolic_drive)
        /\ info.crh >= CrhAt(0)
        /\ info.acth >= ActhAt(0)
        /\ BoostedBy(info.crh, CrhAt(0), 10 * Abs(env.arcuate_metabolic_drive))
        /\ BoostedBy(info.acth, ActhAt(0), 5 * Abs(env.arcuate_metabolic_drive))

\* C25 witness: at drive -1 the CRH and ACTH levels computed are above those
\* at drive 0.
C25_Witness ==
    /\ produced
    /\ env.arcuate_metabolic_drive = -1000000
    /\ info.crh > CrhAt(0)
    /\ info.acth > ActhAt(0)

\* gland mass m1 follows mass m0 by one step in which the driving hormone is
\* at level h: it rises only when up holds and falls only when down holds, by
\* at most the growth or atrophy rate times dt, and stays in [0.5, 2]
Plastic(m0, m1, up, down) ==
    /\ m1 > m0 => up
    /\ m1 < m0 => down
    /\ (~ up /\ ~ down) => m1 = m0
    /\ m1 - m0 <= Mul(GLAND_GROWTH, dt)
    /\ m0 - m1 <= Mul(GLAND_ATROPHY, dt)
    /\ InRange(m1, 500000, 2000000)

\* the gland masses of state e1 follow those of state e0 by one step
GlandStep(e0, e1) ==
    /\ Plastic(e0.adrenal_mass, e1.adrenal_mass,
               e1.acth > 40 * S, e1.acth < 15 * S)
    /\ Plastic(e0.pituitary_mass, e1.pituitary_mass,
               e1.cortisol < 10 * S, e1.cortisol > 25 * S)

\* C26: in one step the adrenal mass rises only if the updated ACTH is above
\* 40, falls only if it is below 15 and is unchanged from 15 to 40; the
\* pituitary mass falls only if the updated cortisol is above 25, rises only
\* if it is below 10 and is unchanged from 10 to 25; the change is at most
\* rate x dt and the result lies in [0.5, 2.0].
C26_GlandPlasticity ==
    [][ last_call'.op = "step" => GlandStep(env, env') ]_vars

\* C26 witness: a step of the extended model that left ACTH above 40 and
\* cortisol below 10 and in which the adrenal and the pituitary grew by the
\* growth rate times dt.
C26_Witness ==
    /\ cascaded
    /\ env.acth > 40 * S
    /\ env.adrenal_mass
           = last_call.from.env.adrenal_mass + Mul(GLAND_GROWTH, dt)
    /\ env.cortisol < 10 * S
    /\ env.pituitary_mass
           = last_call.from.env.pituitary_mass + Mul(GLAND_GROWTH, dt)

\* the gland-pathology term of the load of the instance's state
GlandTerm == IF model = "extended" THEN load_glands(env) ELSE gland_cost(env)

\* the pathology of a gland of mass m when only a mass above 1.5 is tripled
Hypertrophy(m) ==
    IF m > 1500000
    THEN Mul(Sq(m - 1000000), 3000000)
    ELSE Sq(m - 1000000)

\* C28: in every state a step leaves, no gland mass is below 0.5, so the
\* gland-pathology term triples the squared deviation of a gland only when
\* its mass is above 1.5; a gland at the floor 0.5 is costed (mass - 1)^2.
C28_TriplingOnlyAboveOneAndHalf ==
    stepped =>
        /\ env.adrenal_mass >= 500000
        /\ env.pituitary_mass >= 500000
        /\ GlandTerm = Mul(Hypertrophy(env.adrenal_mass)
                           + Hypertrophy(env.pituitary_mass), 300000)

\* C28 witness: a step of the extended model in which the adrenal atrophied
\* to the floor 0.5; its pathology is 0.25, not tripled.
C28_Witness ==
    /\ cascaded
    /\ last_call.from.env.adrenal_mass > 500000
    /\ env.adrenal_mass = 500000
    /\ env.pituitary_mass = 500000
    /\ GlandTerm = Mul(250000 + 250000, 300000)

\* the declared action range of the instance's model
Declared == IF model = "extended" THEN ValidActions ELSE SimpleValidActions

\* the modifiers step(a) decodes in the instance's model
Decoded(a) ==
    IF model = "extended"
    THEN << crh_mod(a), acth_mod(a), cort_mod(a) >>
    ELSE << simple_crh_mod(a), simple_acth_mod(a), cortisol_mod(a) >>

\* C27: each model has a no-op action in its declared range (27 actions in
\* the extended, 9 in the simple model): an action whose decoded CRH, ACTH and
\* cortisol modifiers are all zero, action 13 in the extended model; a step
\* taken with it stores the modifiers (0, 0, 0).
C27_NoOpInRange ==
    stepped =>
        /\ \E a \in Declared : Decoded(a) = << 0, 0, 0 >>
        /\ model = "extended" => Decoded(13) = << 0, 0, 0 >>
        /\ (last_call.action \in Declared /\ Decoded(last_call.action) = << 0, 0, 0 >>)
               => mods = << 0, 0, 0 >>

\* receptor density d1 follows density d0 by one step: it does not exceed 1,
\* falls only while the cortisol concentration is above 100 nM and otherwise
\* moves toward 1 without passing it
Regulated(d0, d1, high) ==
    /\ d1 <= 1000000
    /\ high => d1 <= d0
    /\ ~ high => (d0 <= d1 /\ d1 <= 1000000)

\* the cortisol concentration of instance state e, in nM
Nanomolar(e) ==
    IF model = "extended" THEN _cortisol_nm(e) ELSE _cortisol_to_nmol(e.cortisol)

\* C29: MR and GR receptor densities never exceed 1.0: from densities of at
\* most 1.0 (reset() assigns 1.0) a step multiplies them by a factor below 1
\* when the cortisol concentration is above 100 nM and otherwise moves them
\* toward 1.0 from below, so the upper clip bounds 1.5 and 1.2 are not
\* reached and the receptor term of the load charges down-regulation only.
C29_ReceptorsAtMostOne ==
    /\ [](env.gr_receptors <= 1000000 /\ env.mr_receptors <= 1000000)
    /\ [][ last_call'.op = "step" =>
             /\ Regulated(env.gr_receptors, env'.gr_receptors,
                          Nanomolar(env') > 100 * S)
             /\ Regulated(env.mr_receptors, env'.mr_receptors,
                          Nanomolar(env') > 100 * S) ]_vars

\* C29 witness: a step of the extended model that left the cortisol
\* concentration at 100 nM or below and moved the GR density up, to a value
\* still below 1.
C29_Witness ==
    /\ cascaded
    /\ Nanomolar(env) <= 100 * S
    /\ env.gr_receptors > last_call.from.env.gr_receptors
    /\ env.gr_receptors < 1000000

=============================================================================
